---- MODULE Spec2Model ----
(***************************************************************************)
(* A model of zcrc (include/zcrc/zcrc.hpp): parametrized CRC computation.  *)
(*                                                                         *)
(* An unsigned integer is modelled as the set of the positions of its set  *)
(* bits, so that every storage width up to 64 bits is represented exactly: *)
(* xor is the symmetric difference, a conversion to a D-bit type keeps the *)
(* positions below D.  Bytes of an input span are numbers in 0..255.       *)
(***************************************************************************)
EXTENDS Integers, Sequences, FiniteSets, TLC

VARIABLES
    cfg,    \* the parametrization crc<Width, Poly, Init, RefIn, RefOut, XOROut> in use
    msg,    \* the byte buffer the caller holds
    pos,    \* how many bytes of msg the state `a` has consumed
    a,      \* m_crc of the caller's running state (constructed initialized)
    b,      \* m_crc of a second state (constructed with zero_init)
    tail,   \* the position of msg from which `b` has processed the rest, -1 before
    log,    \* the calls made on `a` so far, oldest first: what went in
    how,    \* the algorithm and the hardware concurrency the last call ran with,
            \* or the bit primitive to apply to a and its other arguments
    out,    \* what the call that ended the session returned
    ub,     \* TRUE once a call has executed undefined behaviour
    pool \* the threads of the parallel call in progress, and what they share

vars == <<cfg, msg, pos, a, b, tail, log, how, out, ub, pool>>

----------------------------------------------------------------------------
(* Bounds of the model.                                                    *)

MaxLen == 3         \* longest input buffer
MaxN == 3           \* largest slice count N of slice_by<N> (besides the default)
MaxCalls == 2       \* most process and process_zero_bytes calls on one state
MaxThreads == 3     \* largest value hardware_concurrency() reports
MaxZero == 3        \* largest count passed to process_zero_bytes

----------------------------------------------------------------------------
(* Unsigned integers as sets of bit positions.                             *)

\* for (i = lo; i < hi; ++i) x = body(x, i).  The range is split in halves, and
\* applying a function to x computes the value x before the loop goes on with
\* it, which keeps the evaluation of a long loop shallow.
RECURSIVE Loop(_, _, _, _)
Loop(body(_, _), x, lo, hi) ==
    [from \in {x} |->
        IF hi <= lo THEN from
        ELSE IF hi = lo + 1 THEN body(from, lo)
        ELSE Loop(body, Loop(body, from, lo, (lo + hi) \div 2), (lo + hi) \div 2, hi)][x]

Pow2(n) == 2 ^ n

\* the word whose value is the number n (n < 2^31)
Word(n) == {i \in 0..30 : (n \div Pow2(i)) % 2 = 1}


Ones(n) == 0..(n - 1)
Xor(x, y) == (x \ y) \cup (y \ x)
Conv(x, digits) == {i \in x : i < digits}
Shl(x, k) == {i + k : i \in x}
Shr(x, k) == {i - k : i \in {j \in x : j >= k}}
MaxBit(x) == CHOOSE i \in x : \A j \in x : j <= i

\* the number a word of 8 bits stands for
Num8(w) ==
    LET bit(i) == IF i \in w THEN Pow2(i) ELSE 0
    IN  bit(0) + bit(1) + bit(2) + bit(3) + bit(4) + bit(5) + bit(6) + bit(7)

\* the byte (a number) made of the bits at..at+7 of a word
ByteAt(w, at) == Num8(Shr(w, at))

\* std::bit_width
bit_width(x) == IF x = {} THEN 0 ELSE MaxBit(x) + 1

\* x + y and x * y in unsigned long long
\* the carries y are added into x until none is left
RECURSIVE Add64(_, _)
Add64(x, y) == IF y = {} THEN x ELSE Add64(Xor(x, y), Conv(Shl(x \cap y, 1), 64))

Mul64(x, y) ==
    IF x = {} THEN {}
    ELSE Loop(LAMBDA acc, k : IF k \in y THEN Add64(acc, Conv(Shl(x, k), 64)) ELSE acc,
              {}, 0, bit_width(y))

\* the word written with the hexadecimal digits `digits`, most significant first
Hex(digits) ==
    UNION {Shl(Word(digits[j]), 4 * (Len(digits) - j)) : j \in 1..Len(digits)}

\* std::numeric_limits<least_uint<Bits>>::digits
least_uint(Bits) == IF Bits <= 8 THEN 8 ELSE IF Bits <= 16 THEN 16 ELSE IF Bits <= 32 THEN 32 ELSE 64


----------------------------------------------------------------------------
(* Bit primitives.                                                         *)

bit_is_set(n, bit) == bit \in n

ReflectBroadcast == {4, 14, 24, 34, 44, 54}                     \* 0x0040100401004010
ReflectSelect == {9, 14, 20, 25, 31, 36, 42, 47, 53, 58}        \* 0x0420841082104200
ReflectGather == {1, 13, 25, 37, 49}                            \* 0x0002002002002002

\* the multiply-and-mask path taken for every bit count
reflect_fast_path(n, bits) ==
    Shr(Mul64(Mul64(n, ReflectBroadcast) \cap ReflectSelect, ReflectGather), 64 - bits)

RECURSIVE reflect(_, _)
reflect(n, bits) ==
    IF bits <= 10
    THEN Shr(Mul64(Mul64(n, ReflectBroadcast) \cap ReflectSelect, ReflectGather), 64 - bits)
    ELSE Shl(reflect(n \cap Ones(10), 10), bits - 10) \cup reflect(Shr(n, 10), bits - 10)

abs(n) == IF n < 0 THEN 0 - n ELSE n

\* a shift that goes to the left whatever the sign of the count
lshift_one_direction(digits, n, by) ==
    IF abs(by) >= digits THEN {}
    ELSE Conv(Shl(n, abs(by)), digits)

\* lshift<T> and rshift<T> for an unsigned type T of `digits` bits
lshift(digits, n, by) ==
    IF abs(by) >= digits THEN {}
    ELSE IF by < 0 THEN Shr(n, 0 - by)
    ELSE Conv(Shl(n, by), digits)

rshift(digits, n, by) == lshift(digits, n, 0 - by)

\* rshift<T> of crc/crc.hpp, written out like its lshift
crc_rshift(digits, n, by) ==
    IF abs(by) >= digits THEN {}
    ELSE IF by < 0 THEN Conv(Shl(n, 0 - by), digits)
    ELSE Shr(n, by)

bottom_n_mask(digits, width) == rshift(digits, Ones(digits), digits - width)

----------------------------------------------------------------------------
(* The parametrizations used: predefined aliases of crc<...>.              *)

Names == {"crc3_gsm", "crc5_usb", "crc8_i_432_1", "crc8_rohc", "crc10_atm",
          "crc12_umts", "crc16_arc", "crc32_xfer", "crc32c"}

Param(w, p, i, rin, rout, x) ==
    [Width |-> w, Poly |-> p, Init |-> i, RefIn |-> rin, RefOut |-> rout, XOROut |-> x]

\* the aliases the test of the check values adds to them here
Predefined ==
    Names \cup {"crc16_modbus", "crc24_openpgp", "crc31_philips", "crc40_gsm", "crc64_xz"}

Catalogue ==
    [n \in Predefined |->
        CASE n = "crc3_gsm"     -> Param(3, Word(3), {}, FALSE, FALSE, Word(7))
          [] n = "crc5_usb"     -> Param(5, Word(5), Word(31), TRUE, TRUE, Word(31))
          [] n = "crc8_i_432_1" -> Param(8, Word(7), {}, FALSE, FALSE, Word(85))
          [] n = "crc8_rohc"    -> Param(8, Word(7), Word(255), TRUE, TRUE, {})
          [] n = "crc10_atm"    -> Param(10, Word(563), {}, FALSE, FALSE, {})
          [] n = "crc12_umts"   -> Param(12, Word(2063), {}, FALSE, TRUE, {})
          [] n = "crc16_arc"    -> Param(16, Word(32773), {}, TRUE, TRUE, {})
          [] n = "crc32_xfer"   -> Param(32, Word(175), {}, FALSE, FALSE, {})
          [] n = "crc32c"       -> Param(32, Word(517762881), Ones(32), TRUE, TRUE, Ones(32))
          [] n = "crc16_modbus" -> Param(16, Word(32773), Ones(16), TRUE, TRUE, {})
          [] n = "crc24_openpgp" ->
                Param(24, Hex(<<8, 6, 4, 12, 15, 11>>), Hex(<<11, 7, 0, 4, 12, 14>>),
                      FALSE, FALSE, {})
          [] n = "crc31_philips" ->
                Param(31, Hex(<<0, 4, 12, 1, 1, 13, 11, 7>>), Ones(31), FALSE, FALSE, Ones(31))
          [] n = "crc40_gsm"    ->
                Param(40, Hex(<<0, 0, 0, 4, 8, 2, 0, 0, 0, 9>>), {}, FALSE, FALSE, Ones(40))
          [] n = "crc64_xz"     ->
                Param(64, Hex(<<4, 2, 15, 0, 14, 1, 14, 11, 10, 9, 14, 10, 3, 6, 9, 3>>),
                      Ones(64), TRUE, TRUE, Ones(64))]

\* the Width and Poly that process_fn instantiates process_fn_impl with
kernel_width(Width) == IF Width < 8 THEN 8 ELSE Width
kernel_poly(Width, Poly) == IF Width < 8 THEN Shl(Poly, 8 - Width) ELSE Poly

\* the <Width, Poly, RefIn> that the kernels, tables and folding constants of
\* the parametrizations above are instantiated with
Kernels ==
    {<<kernel_width(Catalogue[n].Width),
       kernel_poly(Catalogue[n].Width, Catalogue[n].Poly),
       Catalogue[n].RefIn>> : n \in Predefined}

\* reflect(Poly, Width), a constant expression of each instantiation
reflected_polys == [k \in Kernels |-> IF k[3] THEN reflect(k[2], k[1]) ELSE {}]

----------------------------------------------------------------------------
(* Carry-less arithmetic in GF(2)[x]/P.                                    *)

\* an iteration that never reduces r by the polynomial
clmul_step_without_poly(Width, Poly, reflected_poly, RefIn, lhs, rhs, i, r) ==
    IF RefIn
    THEN Xor(Shr(r, 1), IF bit_is_set(lhs, i) THEN rhs ELSE {})
    ELSE Conv(Xor(Shl(r, 1), IF bit_is_set(lhs, Width - 1 - i) THEN rhs ELSE {}),
              least_uint(Width))

\* one iteration of the loop; reflected_poly is reflect(Poly, Width)
clmul_step(Width, Poly, reflected_poly, RefIn, lhs, rhs, i, r) ==
    IF RefIn
    THEN Xor(Xor(Shr(r, 1),
                 IF bit_is_set(r, 0) THEN reflected_poly ELSE {}),
             IF bit_is_set(lhs, i) THEN rhs ELSE {})
    ELSE Conv(Xor(Xor(Shl(r, 1),
                      IF bit_is_set(r, Width - 1) THEN Poly ELSE {}),
                  IF bit_is_set(lhs, Width - 1 - i) THEN rhs ELSE {}),
              least_uint(Width))

\* a product that keeps what the loop left above bit Width - 1
clmul_over_field_unmasked(Width, Poly, RefIn, lhs, rhs) ==
    LET reflected_poly == reflected_polys[<<Width, Poly, RefIn>>]
    IN  Loop(LAMBDA r, i : clmul_step(Width, Poly, reflected_poly, RefIn, lhs, rhs, i, r),
             {}, 0, Width)

clmul_over_field(Width, Poly, RefIn, lhs, rhs) ==
    LET reflected_poly == reflected_polys[<<Width, Poly, RefIn>>]
    IN  Loop(LAMBDA r, i : clmul_step(Width, Poly, reflected_poly, RefIn, lhs, rhs, i, r),
             {}, 0, Width)
            \cap bottom_n_mask(least_uint(Width), Width)

SizeDigits == 64    \* std::numeric_limits<std::size_t>::digits

\* constants that start from the square of x^8
folding_constants_init_from_x8(Width, Poly, RefIn) ==
    Loop(LAMBDA entries, k :
             LET r == IF k = 0 THEN {IF RefIn THEN Width - 9 ELSE 8} ELSE entries[k]
             IN  Append(entries, clmul_over_field(Width, Poly, RefIn, r, r)),
         <<>>, 0, SizeDigits)

\* the initializer of folding_constants<Width, Poly, RefIn>: entry i of the
\* array is element i + 1
folding_constants_init(Width, Poly, RefIn) ==
    Loop(LAMBDA entries, k :
             LET r == IF k = 0 THEN {IF RefIn THEN Width - 5 ELSE 4} ELSE entries[k]
             IN  Append(entries, clmul_over_field(Width, Poly, RefIn, r, r)),
         <<>>, 0, SizeDigits)

\* the variable templates, initialized once per instantiation
folding_constants_of == [k \in Kernels |-> folding_constants_init(k[1], k[2], k[3])]

folding_constants(Width, Poly, RefIn) == folding_constants_of[<<Width, Poly, RefIn>>]

\* a loop that multiplies by the first folding constant for every set bit of n
process_zero_bytes_loop_first_constant(Width, Poly, RefIn, state, n) ==
    LET constants == folding_constants(Width, Poly, RefIn)
    IN  Loop(LAMBDA st, i : IF bit_is_set(n, i)
                            THEN clmul_over_field(Width, Poly, RefIn, st, constants[1])
                            ELSE st,
             state, 0, SizeDigits)

\* the loop of process_zero_bytes_fn_impl, Width >= 8
process_zero_bytes_loop(Width, Poly, RefIn, state, n) ==
    LET constants == folding_constants(Width, Poly, RefIn)
    IN  Loop(LAMBDA st, i : IF bit_is_set(n, i)
                            THEN clmul_over_field(Width, Poly, RefIn, st, constants[i + 1])
                            ELSE st,
             state, 0, SizeDigits)

\* a process_zero_bytes that leaves the state of a narrow parametrization alone
process_zero_bytes_fn_impl_ignoring_narrow(Width, Poly, RefIn, state, n) ==
    IF Width < 8 THEN state
    ELSE process_zero_bytes_loop(Width, Poly, RefIn, state, n)

\* n is a std::size_t, given as a word
process_zero_bytes_fn_impl(Width, Poly, RefIn, state, n) ==
    IF Width < 8
    THEN process_zero_bytes_loop(8, Shl(Poly, 8 - Width), RefIn, state, n)
    ELSE process_zero_bytes_loop(Width, Poly, RefIn, state, n)

\* a loop that multiplies in every iteration, whatever the bit of n
process_zero_bytes_loop_traced_every_bit(Width, Poly, RefIn, state, n) ==
    LET constants == folding_constants(Width, Poly, RefIn)
    IN  Loop(LAMBDA st, i :
                 [state |-> clmul_over_field(Width, Poly, RefIn, st.state, constants[i + 1]),
                  examined |-> Append(st.examined, i),
                  multiplied |-> Append(st.multiplied, <<i, constants[i + 1]>>)],
             [state |-> state, examined |-> <<>>, multiplied |-> <<>>], 0, SizeDigits)

\* the loop of process_zero_bytes_fn_impl with the work it does: the bits i
\* of n it examines and, for each call of clmul_over_field, the i and the
\* folding constant of the call
process_zero_bytes_loop_traced(Width, Poly, RefIn, state, n) ==
    LET constants == folding_constants(Width, Poly, RefIn)
    IN  Loop(LAMBDA st, i :
                 IF bit_is_set(n, i)
                 THEN [state |-> clmul_over_field(Width, Poly, RefIn, st.state, constants[i + 1]),
                       examined |-> Append(st.examined, i),
                       multiplied |-> Append(st.multiplied, <<i, constants[i + 1]>>)]
                 ELSE [st EXCEPT !.examined = Append(st.examined, i)],
             [state |-> state, examined |-> <<>>, multiplied |-> <<>>], 0, SizeDigits)

process_zero_bytes_fn_impl_traced(Width, Poly, RefIn, state, n) ==
    IF Width < 8
    THEN process_zero_bytes_loop_traced(8, Shl(Poly, 8 - Width), RefIn, state, n)
    ELSE process_zero_bytes_loop_traced(Width, Poly, RefIn, state, n)

----------------------------------------------------------------------------
(* Lookup tables.                                                          *)

\* digits of the element type of the table of one slice
table_digits(Width, Poly, RefIn, Slice) ==
    least_uint(IF RefIn THEN Width
               ELSE IF Width <= 7 + bit_width(Poly) + 8 * Slice THEN Width
               ELSE 7 + bit_width(Poly) + 8 * Slice)

\* a round that shifts r and never reduces it by the polynomial
table_step_without_poly(Width, Poly, reflected_poly, RefIn, Slice, r) ==
    IF RefIn THEN Shr(r, 1)
    ELSE Conv(Shl(r, 1), table_digits(Width, Poly, RefIn, Slice))

\* a round whose result is never converted to the type of the entries
table_step_unconverted(Width, Poly, reflected_poly, RefIn, Slice, r) ==
    IF RefIn
    THEN Xor(Shr(r, 1), IF bit_is_set(r, 0) THEN reflected_poly ELSE {})
    ELSE Xor(Shl(r, 1), IF bit_is_set(r, Width - 1) THEN Poly ELSE {})

\* one round of "Step 1": the next r, as stored in the table of `Slice`;
\* reflected_poly is reflect(Poly, Width)
table_step(Width, Poly, reflected_poly, RefIn, Slice, r) ==
    IF RefIn
    THEN Xor(Shr(r, 1), IF bit_is_set(r, 0) THEN reflected_poly ELSE {})
    ELSE Conv(Xor(Shl(r, 1), IF bit_is_set(r, Width - 1) THEN Poly ELSE {}),
              table_digits(Width, Poly, RefIn, Slice))

\* the values r takes: entry 8 * Slice + i + 1 is r after round i of `Slice`
table_powers(Width, Poly, RefIn, rounds) ==
    LET reflected_poly == reflected_polys[<<Width, Poly, RefIn>>]
    IN  Loop(LAMBDA powers, k :
                 LET r == IF k = 0 THEN (IF RefIn THEN {0} ELSE {Width - 1}) ELSE powers[k]
                 IN  Append(powers, table_step(Width, Poly, reflected_poly, RefIn, k \div 8, r)),
             <<>>, 0, rounds)

\* "Step 2": table[i ^ j] = table[i] ^ table[j], i a power of two and j < i
RECURSIVE table_entry(_, _, _, _)
table_entry(powers, RefIn, Slice, index) ==
    IF index = {} THEN {}
    ELSE LET i == MaxBit(index)
             round == IF RefIn THEN 7 - i ELSE i
         IN  Xor(powers[8 * Slice + round + 1],
                 table_entry(powers, RefIn, Slice, index \ {i}))

\* tables that all hold the powers of the first one
tables_init_repeated(Width, Poly, RefIn, Slices) ==
    LET powers == table_powers(Width, Poly, RefIn, 8)
    IN  [Slice \in 0..(Slices - 1) |->
            [index \in SUBSET (0..7) |-> table_entry(powers, RefIn, 0, index)]]

\* the initializer of tables<Width, Poly, RefIn, Slices>
tables_init(Width, Poly, RefIn, Slices) ==
    LET powers == table_powers(Width, Poly, RefIn, 8 * Slices)
    IN  [Slice \in 0..(Slices - 1) |->
            [index \in SUBSET (0..7) |-> table_entry(powers, RefIn, Slice, index)]]

\* the slice counts the model instantiates: slice_by<1> .. slice_by<MaxN> and
\* the default algorithm slice_by<8>
DefaultSlices == 8
SliceCounts == (1..MaxN) \cup {DefaultSlices}

\* slice_by_t<1> .. slice_by_t<5>, the algorithms the tests instantiate
MatrixSlices == 1..5

\* the variable templates, initialized once per instantiation
tables_of ==
    [k \in Kernels |->
        [Slices \in SliceCounts \cup MatrixSlices |-> tables_init(k[1], k[2], k[3], Slices)]]

\* tables<Width, Poly, RefIn, Slices>: std::get<Slice>(t)[index] is tables(..)[Slice][index]
tables(Width, Poly, RefIn, Slices) == tables_of[<<Width, Poly, RefIn>>][Slices]

----------------------------------------------------------------------------
(* The tables of crc/crc.hpp: one array of arrays, filled from the last    *)
(* array to the first.                                                     *)

\* the digits of the entries of tables_
tables__digits(Width, Poly, RefIn, Slices) ==
    IF RefIn \/ Slices > 1 THEN least_uint(Width) ELSE least_uint(7 + bit_width(Poly))

\* the digits of the type an operand of least_uint<Width> is promoted to
promoted_digits(Width) == IF least_uint(Width) < 32 THEN 32 ELSE least_uint(Width)

\* a round that shifts r and never reduces it by the polynomial
tables__step_without_poly(Width, Poly, reflected_poly, RefIn, Slices, r) ==
    IF RefIn THEN Shr(r, 1)
    ELSE Conv(Conv(Shl(r, 1), promoted_digits(Width)),
              tables__digits(Width, Poly, RefIn, Slices))

\* one round of "Step 1": the entry stored by table[..] = ..; the next r is
\* this entry converted to least_uint<Width>
tables__step(Width, Poly, reflected_poly, RefIn, Slices, r) ==
    IF RefIn
    THEN Xor(Shr(r, 1), IF bit_is_set(r, 0) THEN reflected_poly ELSE {})
    ELSE Conv(Xor(Conv(Shl(r, 1), promoted_digits(Width)),
                  IF bit_is_set(r, Width - 1) THEN Poly ELSE {}),
              tables__digits(Width, Poly, RefIn, Slices))

\* the entries "Step 1" stores, over all the arrays: entry 8 * k + i + 1 is
\* stored by round i of the k-th array visited
tables__powers(Width, Poly, RefIn, Slices) ==
    LET reflected_poly == reflected_polys[<<Width, Poly, RefIn>>]
    IN  Loop(LAMBDA powers, k :
                 LET r == IF k = 0 THEN (IF RefIn THEN {0} ELSE {Width - 1})
                          ELSE Conv(powers[k], least_uint(Width))
                 IN  Append(powers, tables__step(Width, Poly, reflected_poly, RefIn, Slices, r)),
             <<>>, 0, 8 * Slices)

\* the initializer of tables<Width, Poly, RefIn, Slices> of crc/crc.hpp; the
\* loop visits tables_ | std::views::reverse
tables_(Width, Poly, RefIn, Slices) ==
    LET powers == tables__powers(Width, Poly, RefIn, Slices)
    IN  [Slice \in 0..(Slices - 1) |->
            [index \in SUBSET (0..7) |->
                table_entry(powers, RefIn, Slices - 1 - Slice, index)]]

----------------------------------------------------------------------------
(* The slice-by-N kernel.  `bytes` is the input from `it` on; `it` counts   *)
(* the bytes already consumed.                                             *)

RECURSIVE fold_terms(_, _, _, _, _, _, _, _)
fold_terms(Width, RefIn, t, crc, bytes, it, blocks, B) ==
    IF B = blocks THEN {}
    ELSE LET digits == least_uint(Width)
             window == IF RefIn
                       THEN rshift(digits, crc, 8 * B) \cap Ones(8)
                       ELSE rshift(digits, crc, Width - 8 * (B + 1)) \cap Ones(8)
             index == Xor(window, Word(bytes[it + B + 1]))
         IN  Xor(t[blocks - B - 1][index],
                 fold_terms(Width, RefIn, t, crc, bytes, it, blocks, B + 1))

\* a fold that adds 1 to every crc it computes
fold_affine(Width, Poly, RefIn, N, crc, bytes, it, blocks) ==
    LET digits == least_uint(Width)
        t == tables(Width, Poly, RefIn, N)
    IN  Xor(Conv(Xor(fold_terms(Width, RefIn, t, crc, bytes, it, blocks, 0),
                     IF RefIn THEN rshift(digits, crc, blocks * 8)
                     ELSE lshift(digits, crc, blocks * 8)),
                 digits),
            {IF RefIn THEN 0 ELSE Width - 1})

\* fold(std::make_index_sequence<blocks>{}) of slice_by_t<N>: the new crc
fold(Width, Poly, RefIn, N, crc, bytes, it, blocks) ==
    LET digits == least_uint(Width)
        t == tables(Width, Poly, RefIn, N)
    IN  Conv(Xor(fold_terms(Width, RefIn, t, crc, bytes, it, blocks, 0),
                 IF RefIn THEN rshift(digits, crc, blocks * 8)
                 ELSE lshift(digits, crc, blocks * 8)),
             digits)

\* a main loop that folds the first N bytes again in every round
main_loop_rewound(Width, Poly, RefIn, N, crc, bytes, end_of_main_loop) ==
    Loop(LAMBDA c, k : fold(Width, Poly, RefIn, N, c, bytes, 0, N),
         crc, 0, end_of_main_loop \div N)

\* the main loop: fold_by_n until `it` reaches end_of_main_loop
main_loop(Width, Poly, RefIn, N, crc, bytes, end_of_main_loop) ==
    Loop(LAMBDA c, k : fold(Width, Poly, RefIn, N, c, bytes, k * N, N),
         crc, 0, end_of_main_loop \div N)

\* a kernel that stops after the main loop and leaves the last len % N bytes out
fold_by_powers_of_two_skipped(Width, Poly, RefIn, N, crc, bytes, it, len) == crc

\* fold_by_powers_of_two(len): P runs over 0 .. bit_width(N - 1) - 1; the
\* state is <<crc, it>>
fold_by_powers_of_two(Width, Poly, RefIn, N, crc, bytes, it, len) ==
    Loop(LAMBDA st, P :
             IF bit_is_set(Word(len), P)
             THEN <<fold(Width, Poly, RefIn, N, st[1], bytes, st[2], Pow2(P)), st[2] + Pow2(P)>>
             ELSE st,
         <<crc, it>>, 0, bit_width(Word(N - 1)))[1]

\* a tail that runs over the bits below the highest bit of N
fold_by_powers_of_two_traced_short(Width, Poly, RefIn, N, crc, bytes, it, len) ==
    Loop(LAMBDA st, P :
             IF bit_is_set(Word(len), P)
             THEN [crc |-> fold(Width, Poly, RefIn, N, st.crc, bytes, st.it, Pow2(P)),
                   it |-> st.it + Pow2(P),
                   blocks |-> Append(st.blocks, <<st.it, Pow2(P)>>)]
             ELSE st,
         [crc |-> crc, it |-> it, blocks |-> <<>>], 0, bit_width(Word(N)) - 1)

\* fold_by_powers_of_two(len) with the blocks it folds, in the order in which
\* the fold expression over P = 0, 1, .. evaluates them: <<position, size>>
fold_by_powers_of_two_traced(Width, Poly, RefIn, N, crc, bytes, it, len) ==
    Loop(LAMBDA st, P :
             IF bit_is_set(Word(len), P)
             THEN [crc |-> fold(Width, Poly, RefIn, N, st.crc, bytes, st.it, Pow2(P)),
                   it |-> st.it + Pow2(P),
                   blocks |-> Append(st.blocks, <<st.it, Pow2(P)>>)]
             ELSE st,
         [crc |-> crc, it |-> it, blocks |-> <<>>], 0, bit_width(Word(N - 1)))

\* the register when the loops are done, before the mask of the return
process_fn_impl_unmasked(Width, Poly, RefIn, N, crc, bytes) ==
    LET tail_len == Len(bytes) % N
        end_of_main_loop == Len(bytes) - tail_len
    IN  fold_by_powers_of_two(Width, Poly, RefIn, N,
            main_loop(Width, Poly, RefIn, N, crc, bytes, end_of_main_loop),
            bytes, end_of_main_loop, tail_len)

\* a kernel that returns the register as the loops left it
process_fn_impl_keeping_garbage(Width, Poly, RefIn, N, crc, bytes) ==
    process_fn_impl_unmasked(Width, Poly, RefIn, N, crc, bytes)

\* process_fn_impl(slice_by_t<N>, crc, it, end) on a sized random-access range
process_fn_impl(Width, Poly, RefIn, N, crc, bytes) ==
    process_fn_impl_unmasked(Width, Poly, RefIn, N, crc, bytes)
        \cap bottom_n_mask(least_uint(Width), Width)

\* the loop of the random-access path whose sentinel is not sized: `end` is
\* known only by comparing, position by position; here it is at Len(bytes)
RECURSIVE unsized_loop(_, _, _, _, _, _, _)
unsized_loop(Width, Poly, RefIn, N, crc, bytes, it) ==
    LET reached == {i \in 0..(N - 1) : it + i = Len(bytes)}
    IN  IF reached # {}
        THEN fold_by_powers_of_two(Width, Poly, RefIn, N, crc, bytes, it,
                                   CHOOSE i \in reached : TRUE)
        ELSE unsized_loop(Width, Poly, RefIn, N,
                          fold(Width, Poly, RefIn, N, crc, bytes, it, N), bytes, it + N)

\* a scan that returns at the first block the end falls into, leaving the
\* bytes of that block out
process_fn_impl_unsized_dropping_tail(Width, Poly, RefIn, N, crc, bytes) ==
    main_loop(Width, Poly, RefIn, N, crc, bytes, Len(bytes) - (Len(bytes) % N))
        \cap bottom_n_mask(least_uint(Width), Width)

\* process_fn_impl(slice_by_t<N>, crc, it, end) on a random-access range
\* without a sized sentinel
process_fn_impl_unsized(Width, Poly, RefIn, N, crc, bytes) ==
    unsized_loop(Width, Poly, RefIn, N, crc, bytes, 0)
        \cap bottom_n_mask(least_uint(Width), Width)

\* process_fn_impl(slice_by_t<N>, crc, it, end) on a range that is not random
\* access: fold(std::make_index_sequence<1>{}) for every byte
process_fn_impl_single_pass(Width, Poly, RefIn, N, crc, bytes) ==
    Loop(LAMBDA c, k : fold(Width, Poly, RefIn, N, c, bytes, k, 1), crc, 0, Len(bytes))
        \cap bottom_n_mask(least_uint(Width), Width)

----------------------------------------------------------------------------
(* The parallel driver.  `hardware_threads` is what                        *)
(* std::jthread::hardware_concurrency() returns.                           *)

\* the driver divides by hardware_threads, and each worker by chunk_length
parallel_undefined(len, hardware_threads) ==
    \/ hardware_threads = 0
    \/ len \div hardware_threads = 0

chunk_begin(len, chunk_length, i) ==
    IF i = 0 THEN 0 ELSE (len % chunk_length) + i * chunk_length

chunk_end(len, chunk_length, i) == (len % chunk_length) + (i + 1) * chunk_length

\* what the transform of worker i returns
parallel_chunk(Width, Poly, RefIn, N, state, bytes, chunk_length, i) ==
    LET len == Len(bytes)
        first == chunk_begin(len, chunk_length, i)
        last == chunk_end(len, chunk_length, i)
    IN  process_zero_bytes_fn_impl(Width, Poly, RefIn,
            process_fn_impl(Width, Poly, RefIn, N,
                            IF i = 0 THEN state ELSE {},
                            SubSeq(bytes, first + 1, last)),
            Word(len - last))

RECURSIVE parallel_reduce(_, _, _, _, _, _, _, _)
parallel_reduce(Width, Poly, RefIn, N, state, bytes, chunk_length, workers) ==
    IF workers = 0 THEN {}
    ELSE Xor(parallel_reduce(Width, Poly, RefIn, N, state, bytes, chunk_length, workers - 1),
             parallel_chunk(Width, Poly, RefIn, N, state, bytes, chunk_length, workers - 1))

\* process_fn_impl(parallel_t<slice_by_t<N>>, state, it, end) on a sized
\* random-access range, where its divisions are defined
process_fn_impl_parallel(Width, Poly, RefIn, N, state, bytes, hardware_threads) ==
    parallel_reduce(Width, Poly, RefIn, N, state, bytes,
                    Len(bytes) \div hardware_threads, hardware_threads)

----------------------------------------------------------------------------
(* The public operations on a state crc<...>, given as its m_crc.          *)

\* the default member initializer of m_crc
m_crc(p) ==
    IF p.RefIn THEN reflect(p.Init, p.Width)
    ELSE IF p.Width < 8 THEN Shl(p.Init, 8 - p.Width)
    ELSE p.Init

zero_init == {}

slice_by(N) == [parallel |-> FALSE, N |-> N]
parallel(N) == [parallel |-> TRUE, N |-> N]
default_algorithm == slice_by(DefaultSlices)

process_fn(p, algo, crc, bytes, hardware_threads) ==
    IF algo.parallel
    THEN process_fn_impl_parallel(kernel_width(p.Width), kernel_poly(p.Width, p.Poly),
                                  p.RefIn, algo.N, crc, bytes, hardware_threads)
    ELSE process_fn_impl(kernel_width(p.Width), kernel_poly(p.Width, p.Poly),
                         p.RefIn, algo.N, crc, bytes)

\* the iterator and sentinel a range is handed over with
Categories == {"contiguous_sized", "random_access_sized", "random_access_unsized", "input"}

\* zcrc::process(algo, crc, it, end) by the category of the range: the
\* overload for contiguous sized ranges erases the type and runs the sized
\* path; the parallel driver runs its inner algorithm on a range that is not
\* random access and sized
process_fn_on(p, algo, crc, bytes, category, hardware_threads) ==
    LET Width == kernel_width(p.Width)
        Poly == kernel_poly(p.Width, p.Poly)
    IN  IF category \in {"contiguous_sized", "random_access_sized"}
        THEN process_fn(p, algo, crc, bytes, hardware_threads)
        ELSE IF category = "random_access_unsized"
        THEN process_fn_impl_unsized(Width, Poly, p.RefIn, algo.N, crc, bytes)
        ELSE process_fn_impl_single_pass(Width, Poly, p.RefIn, algo.N, crc, bytes)

process_zero_bytes_fn(p, state, n) ==
    process_zero_bytes_fn_impl(p.Width, p.Poly, p.RefIn, state, n)

\* a combine that ors the registers
combine_fn_or(lhs, rhs) == lhs \cup rhs

combine_fn(lhs, rhs) == Xor(lhs, rhs)

\* finalize that forgets the final XOR with XOROut
finalize_fn_without_xorout(p, state) ==
    LET shifted == IF p.Width < 8 /\ ~p.RefIn THEN Shr(state, 8 - p.Width) ELSE state
    IN  IF p.RefIn # p.RefOut THEN reflect(shifted, p.Width) ELSE shifted

\* finalize that leaves a narrow register where the kernel keeps it
finalize_fn_unshifted(p, state) ==
    LET turned == IF p.RefIn # p.RefOut THEN reflect(state, p.Width) ELSE state
    IN  Xor(turned, p.XOROut)

finalize_fn(p, state) ==
    LET shifted == IF p.Width < 8 /\ ~p.RefIn THEN Shr(state, 8 - p.Width) ELSE state
        turned == IF p.RefIn # p.RefOut THEN reflect(shifted, p.Width) ELSE shifted
    IN  Xor(turned, p.XOROut)

\* a round that shifts residue_ and never reduces it by the polynomial
residue_step_without_poly(p, residue_) ==
    Conv(Shl(residue_, 1), least_uint(p.Width))

\* residue_ = (residue_ << 1) ^ (bit_is_set(residue_, Width - 1) ? Poly : 0)
residue_step(p, residue_) ==
    Conv(Xor(Shl(residue_, 1),
             IF bit_is_set(residue_, p.Width - 1) THEN p.Poly ELSE {}),
         least_uint(p.Width))

residue(p) ==
    LET residue_ == Loop(LAMBDA r, i : residue_step(p, r), p.XOROut, 0, p.Width)
                        \cap bottom_n_mask(least_uint(p.Width), p.Width)
    IN  IF p.RefIn THEN reflect(residue_, p.Width)
        ELSE IF p.Width < 8 THEN Shl(residue_, 8 - p.Width)
        ELSE residue_

is_valid_fn(p, state) == state = residue(p)

\* the defaulted operator== of crc: it compares m_crc
operator_eq(lhs, rhs) == lhs = rhs

\* a compute that starts from the zero state
compute_member_fn_from_zero(p, algo, bytes, hardware_threads) ==
    finalize_fn(p, process_fn(p, algo, zero_init, bytes, hardware_threads))

\* crc::compute and crc::is_valid, the static members
compute_member_fn(p, algo, bytes, hardware_threads) ==
    finalize_fn(p, process_fn(p, algo, m_crc(p), bytes, hardware_threads))

is_valid_member_fn(p, algo, bytes, hardware_threads) ==
    is_valid_fn(p, process_fn(p, algo, m_crc(p), bytes, hardware_threads))

\* least_uint<Bits> is void: no unsigned type is wide enough
least_uint_is_void(Bits) == Bits > 64

\* an accepting check that tests the arguments against the storage type only
fits_width_of_storage(Width, n) ==
    (n \ bottom_n_mask(least_uint(Width), least_uint(Width))) = {}

\* (n & ~detail::bottom_n_mask<crc_type>(Width)) == 0
fits_width(Width, n) == (n \ bottom_n_mask(least_uint(Width), Width)) = {}

\* crc<Width, Poly, Init, RefIn, RefOut, XOROut> compiles: the type of the
\* value parameters exists, the arguments convert to it without narrowing,
\* and the static assertions of the class hold
crc_is_well_formed(Width, Poly, Init, XOROut) ==
    /\ ~least_uint_is_void(Width)
    /\ \A n \in {Poly, Init, XOROut} : n \subseteq Ones(least_uint(Width))
    /\ Width # 0
    /\ least_uint(Width) >= Width
    /\ fits_width(Width, Poly)
    /\ fits_width(Width, Init)
    /\ fits_width(Width, XOROut)

\* zcrc::process(crc, bytes): the overload without an algorithm
process_fn_default(p, crc, bytes) ==
    process_fn(p, default_algorithm, crc, bytes, 0)

\* P::compute(bytes): the overload without an algorithm
compute_member_fn_default(p, bytes) ==
    compute_member_fn(p, default_algorithm, bytes, 0)

\* P::is_valid(bytes): the overload without an algorithm
is_valid_member_fn_default(p, bytes) ==
    is_valid_member_fn(p, default_algorithm, bytes, 0)

----------------------------------------------------------------------------
(* A session of a caller: it holds a buffer, streams it into the state `a`  *)
(* in pieces, may account for the rest with process_zero_bytes and combine  *)
(* it with the state `b` of the rest, and ends by reading a result.         *)

ByteValues == {0, 6, 51}

RECURSIVE Spans(_)
Spans(len) ==
    IF len = 0 THEN {<<>>}
    ELSE Spans(len - 1) \cup {Append(m, v) : m \in {n \in Spans(len - 1) : Len(n) = len - 1},
                                              v \in ByteValues}

ZeroCounts == {Word(n) : n \in 0..MaxZero}

\* a value a call may return after undefined behaviour: two of them stand for all
Unspecified == {{}, Ones(8)}

\* the checksum c as the bytes that follow the message on the wire: the bits
\* in the order the kernel consumes them, least significant byte first for a
\* reflected input, else most significant bit first and padded at the end
Serialize(p, c) ==
    LET count == (p.Width + 7) \div 8
        aligned == IF p.RefIn THEN c ELSE Shl(c, 8 * count - p.Width)
    IN  [j \in 1..count |->
            ByteAt(aligned, IF p.RefIn THEN 8 * (j - 1) ELSE 8 * (count - j))]

\* the span with bit `flip` inverted (bit 0 is the lowest bit of the first
\* byte), or the span itself when flip = -1
FlipBit(bytes, flip) ==
    [j \in 1..Len(bytes) |->
        IF flip \div 8 = j - 1 /\ flip >= 0
        THEN Num8(Xor(Word(bytes[j]), {flip % 8}))
        ELSE bytes[j]]

params == Catalogue[cfg]

none == [op |-> "none"]

Init ==
    /\ cfg \in Names
    /\ msg \in Spans(MaxLen)
    /\ pos = 0
    /\ a = m_crc(Catalogue[cfg])
    /\ b = zero_init
    /\ tail = -1
    /\ log = <<>>
    /\ how = none
    /\ out = none
    /\ ub = FALSE
    /\ pool = none

Running == ~ub /\ out = none /\ tail = -1 /\ Len(log) < MaxCalls

\* a = zcrc::process(zcrc::slice_by<N>, a, first k bytes of the rest)
Process(N, k) ==
    /\ Running
    /\ pos + k <= Len(msg)
    /\ a' = process_fn(params, slice_by(N), a, SubSeq(msg, pos + 1, pos + k), 0)
    /\ pos' = pos + k
    /\ log' = Append(log, [op |-> "process", parallel |-> FALSE, from |-> a, lo |-> pos, hi |-> pos + k])
    /\ how' = [parallel |-> FALSE, N |-> N, hardware_threads |-> 0]
    /\ UNCHANGED <<cfg, msg, b, tail, out, ub, pool>>

\* a = zcrc::process(zcrc::parallel<zcrc::slice_by<N>>, a, the rest) while
\* hardware_concurrency() reports T; a division by zero is undefined
\* behaviour, after which the call may have returned any value
ProcessParallel(N, T, unspecified) ==
    /\ Running
    /\ LET len == Len(msg) - pos
       IN  IF parallel_undefined(len, T)
           THEN ub' = TRUE /\ a' = unspecified
           ELSE /\ ub' = ub
                /\ unspecified = {}
                /\ a' = process_fn(params, parallel(N), a, SubSeq(msg, pos + 1, Len(msg)), T)
    /\ pos' = Len(msg)
    /\ log' = Append(log, [op |-> "process", parallel |-> TRUE, from |-> a, lo |-> pos, hi |-> Len(msg)])
    /\ how' = [parallel |-> TRUE, N |-> N, hardware_threads |-> T]
    /\ UNCHANGED <<cfg, msg, b, tail, out, pool>>

\* a = zcrc::process_zero_bytes(a, n)
ProcessZeroBytes(n) ==
    /\ Running
    /\ a' = process_zero_bytes_fn(params, a, n)
    /\ log' = Append(log, [op |-> "process_zero_bytes", from |-> a, n |-> n])
    /\ how' = none
    /\ UNCHANGED <<cfg, msg, pos, b, tail, out, ub, pool>>

\* b = zcrc::process(zcrc::slice_by<N>, b, the rest), once `a` has been
\* extended by as many zero bytes as the rest is long
ProcessTail(N) ==
    /\ ~ub /\ out = none /\ tail = -1
    /\ log # <<>>
    /\ log[Len(log)].op = "process_zero_bytes"
    /\ log[Len(log)].n = Word(Len(msg) - pos)
    /\ b' = process_fn(params, slice_by(N), b, SubSeq(msg, pos + 1, Len(msg)), 0)
    /\ tail' = pos
    /\ UNCHANGED <<cfg, msg, pos, a, log, how, out, ub, pool>>

\* a = zcrc::combine(a, b)
Combine ==
    /\ ~ub /\ out = none /\ tail = pos
    /\ log[Len(log)].op = "process_zero_bytes"
    /\ a' = combine_fn(a, b)
    /\ pos' = Len(msg)
    /\ log' = Append(log, [op |-> "combine", from |-> a, with |-> b])
    /\ how' = none
    /\ UNCHANGED <<cfg, msg, b, tail, out, ub, pool>>

\* zcrc::finalize(a), once `a` stands for the whole buffer
Finalize ==
    /\ ~ub /\ out = none /\ pos = Len(msg)
    /\ out' = [op |-> "finalize", val |-> finalize_fn(params, a)]
    /\ how' = none
    /\ UNCHANGED <<cfg, msg, pos, a, b, tail, log, ub, pool>>

\* zcrc::is_valid(a), once `a` stands for the whole buffer
IsValid ==
    /\ ~ub /\ out = none /\ pos = Len(msg)
    /\ out' = [op |-> "is_valid", val |-> is_valid_fn(params, a)]
    /\ how' = none
    /\ UNCHANGED <<cfg, msg, pos, a, b, tail, log, ub, pool>>

\* P::compute(algo, msg), the static member, hardware_concurrency() being T
Compute(algorithm, T, unspecified) ==
    /\ Running /\ log = <<>>
    /\ IF algorithm.parallel /\ parallel_undefined(Len(msg), T)
       THEN /\ ub' = TRUE
            /\ out' = [op |-> "compute", algo |-> algorithm, hardware_threads |-> T,
                       val |-> unspecified]
       ELSE /\ ub' = ub
            /\ unspecified = {}
            /\ out' = [op |-> "compute", algo |-> algorithm, hardware_threads |-> T,
                       val |-> compute_member_fn(params, algorithm, msg, T)]
    /\ UNCHANGED <<cfg, msg, pos, a, b, tail, log, how, pool>>

\* P::is_valid(codeword), the static member with the default algorithm, where
\* the codeword is msg followed by P::compute(msg), one bit flipped or none
Validate(flip) ==
    /\ Running /\ log = <<>>
    /\ LET checksum == compute_member_fn(params, default_algorithm, msg, 0)
           codeword == msg \o Serialize(params, checksum)
       IN  /\ flip < 8 * Len(codeword)
           /\ out' = [op |-> "validate", flip |-> flip, codeword |-> codeword,
                      val |-> is_valid_member_fn(params, default_algorithm,
                                                 FlipBit(codeword, flip), 0)]
    /\ UNCHANGED <<cfg, msg, pos, a, b, tail, log, how, ub, pool>>

Algorithms == {slice_by(N) : N \in SliceCounts} \cup {parallel(N) : N \in 1..MaxN}

Next ==
    \/ \E N \in 1..MaxN, k \in 0..MaxLen : Process(N, k)
    \/ \E N \in 1..MaxN, T \in 0..MaxThreads, u \in Unspecified : ProcessParallel(N, T, u)
    \/ \E n \in ZeroCounts : ProcessZeroBytes(n)
    \/ \E N \in 1..MaxN : ProcessTail(N)
    \/ Combine
    \/ Finalize
    \/ IsValid
    \/ \E algorithm \in Algorithms, T \in 0..MaxThreads, u \in Unspecified :
            Compute(algorithm, IF algorithm.parallel THEN T ELSE 0, u)
    \/ \E flip \in -1..(8 * (MaxLen + 8) - 1) : Validate(flip)

Spec == Init /\ [][Next]_vars

----------------------------------------------------------------------------
(* Single calls of the interface: one call on a fresh state, with the      *)
(* buffers of the sessions and the buffer of the tests.                    *)

\* "123456789"
test_data == <<49, 50, 51, 52, 53, 54, 55, 56, 57>>

Buffers == Spans(MaxLen) \cup {test_data}

SliceAlgorithms == {slice_by(N) : N \in SliceCounts \cup MatrixSlices}

\* the check values the tests expect of compute(algo, test_data)
check_values ==
    [n \in Predefined |->
        CASE n = "crc3_gsm"      -> Hex(<<4>>)
          [] n = "crc5_usb"      -> Hex(<<1, 9>>)
          [] n = "crc8_i_432_1"  -> Hex(<<10, 1>>)
          [] n = "crc8_rohc"     -> Hex(<<13, 0>>)
          [] n = "crc10_atm"     -> Hex(<<1, 9, 9>>)
          [] n = "crc12_umts"    -> Hex(<<13, 10, 15>>)
          [] n = "crc16_arc"     -> Hex(<<11, 11, 3, 13>>)
          [] n = "crc16_modbus"  -> Hex(<<4, 11, 3, 7>>)
          [] n = "crc24_openpgp" -> Hex(<<2, 1, 12, 15, 0, 2>>)
          [] n = "crc31_philips" -> Hex(<<0, 12, 14, 9, 14, 4, 6, 12>>)
          [] n = "crc32_xfer"    -> Hex(<<11, 13, 0, 11, 14, 3, 3, 8>>)
          [] n = "crc32c"        -> Hex(<<14, 3, 0, 6, 9, 2, 8, 3>>)
          [] n = "crc40_gsm"     -> Hex(<<13, 4, 1, 6, 4, 15, 12, 6, 4, 6>>)
          [] n = "crc64_xz"      ->
                Hex(<<9, 9, 5, 13, 12, 9, 11, 11, 13, 15, 1, 9, 3, 9, 15, 10>>)]

CallsInit ==
    /\ cfg \in Predefined
    /\ msg \in Buffers
    /\ pos = 0
    /\ a \in {m_crc(Catalogue[cfg]), zero_init}
    /\ b = zero_init
    /\ tail = -1
    /\ log = <<>>
    /\ how = none
    /\ out = none
    /\ ub = FALSE
    /\ pool = none

\* zcrc::process(algo, a, msg), P::compute(algo, msg) or P::is_valid(algo, msg),
\* and, when `defaulted`, their overloads that take no algorithm
Call(member, algorithm, defaulted) ==
    /\ out = none
    /\ defaulted => algorithm = default_algorithm
    /\ out' = [op |-> member, algo |-> algorithm, defaulted |-> defaulted, val |->
                 CASE member = "process" ->
                        IF defaulted THEN process_fn_default(params, a, msg)
                        ELSE process_fn(params, algorithm, a, msg, 0)
                   [] member = "compute" ->
                        IF defaulted THEN compute_member_fn_default(params, msg)
                        ELSE compute_member_fn(params, algorithm, msg, 0)
                   [] member = "is_valid" ->
                        IF defaulted THEN is_valid_member_fn_default(params, msg)
                        ELSE is_valid_member_fn(params, algorithm, msg, 0)]
    /\ UNCHANGED <<cfg, msg, pos, a, b, tail, log, how, ub, pool>>

\* zcrc::process(algo, a, range) where the range holds the bytes of msg and
\* is of the given category
ProcessRange(algorithm, category) ==
    /\ out = none
    /\ out' = [op |-> "process_range", algo |-> algorithm, category |-> category,
               val |-> process_fn_on(params, algorithm, a, msg, category, 0)]
    /\ UNCHANGED <<cfg, msg, pos, a, b, tail, log, how, ub, pool>>

CallsNext ==
    \/ \E algorithm \in SliceAlgorithms, category \in Categories :
            ProcessRange(algorithm, category)
    \/ \E member \in {"process", "compute", "is_valid"}, algorithm \in SliceAlgorithms,
           defaulted \in BOOLEAN : Call(member, algorithm, defaulted)

Calls == CallsInit /\ [][CallsNext]_vars

----------------------------------------------------------------------------
(* Instantiations of the class template with arguments of the caller's     *)
(* choice, besides the aliases of the catalogue.                           *)

Widths == {0, 1, 5, 8, 9, 16, 31, 32, 33, 64, 65}

\* template arguments for Poly, Init and XOROut: small values, the largest of
\* Width bits, the first beyond them, and the ends of the storage type
Arguments(Width) ==
    {{}, {0}, Ones(Width), {Width}, {least_uint(Width) - 1}, {least_uint(Width)}}

TemplatesInit ==
    /\ cfg \in Predefined
    /\ msg = <<>>
    /\ pos = 0
    /\ a = zero_init
    /\ b = zero_init
    /\ tail = -1
    /\ log = <<>>
    /\ how = none
    /\ out = none
    /\ ub = FALSE
    /\ pool = none

\* the compiler instantiates crc<Width, Poly, Init, RefIn, RefOut, XOROut>
Instantiate(Width, Poly, Init_, XOROut) ==
    /\ out = none
    /\ out' = [op |-> "instantiate", Width |-> Width, Poly |-> Poly, Init |-> Init_,
               XOROut |-> XOROut,
               accepted |-> crc_is_well_formed(Width, Poly, Init_, XOROut)]
    /\ UNCHANGED <<cfg, msg, pos, a, b, tail, log, how, ub, pool>>

TemplatesNext ==
    \/ \E Width \in Widths : \E Poly \in Arguments(Width), Init_ \in Arguments(Width),
                                 XOROut \in Arguments(Width) :
            Instantiate(Width, Poly, Init_, XOROut)
    \/ Instantiate(params.Width, params.Poly, params.Init, params.XOROut)

Templates == TemplatesInit /\ [][TemplatesNext]_vars

----------------------------------------------------------------------------
(* The tail of the slice-by-N kernel, on the first bytes of test_data.     *)

TailsInit ==
    /\ cfg \in Names
    /\ msg \in {SubSeq(test_data, 1, len) : len \in 0..Len(test_data)}
    /\ pos = 0
    /\ a = m_crc(Catalogue[cfg])
    /\ b = zero_init
    /\ tail = -1
    /\ log = <<>>
    /\ how = none
    /\ out = none
    /\ ub = FALSE
    /\ pool = none

\* zcrc::process(zcrc::slice_by<N>, a, msg) on a sized random-access range,
\* with the blocks its tail folds
FoldTail(N) ==
    /\ out = none
    /\ LET Width == kernel_width(params.Width)
           Poly == kernel_poly(params.Width, params.Poly)
           tail_len == Len(msg) % N
           end_of_main_loop == Len(msg) - tail_len
           done == fold_by_powers_of_two_traced(Width, Poly, params.RefIn, N,
                       main_loop(Width, Poly, params.RefIn, N, a, msg, end_of_main_loop),
                       msg, end_of_main_loop, tail_len)
       IN  out' = [op |-> "tail", N |-> N, tail_len |-> tail_len,
                   end_of_main_loop |-> end_of_main_loop,
                   blocks |-> done.blocks, it |-> done.it,
                   val |-> done.crc \cap bottom_n_mask(least_uint(Width), Width)]
    /\ UNCHANGED <<cfg, msg, pos, a, b, tail, log, how, ub, pool>>

TailsNext == \E N \in SliceCounts \cup MatrixSlices : FoldTail(N)

Tails == TailsInit /\ [][TailsNext]_vars

----------------------------------------------------------------------------
(* The slice tables of the predefined parametrizations, in both headers.   *)

TablesInit ==
    /\ cfg \in Predefined
    /\ msg = <<>>
    /\ pos = 0
    /\ a = m_crc(Catalogue[cfg])
    /\ b = zero_init
    /\ tail = -1
    /\ log = <<>>
    /\ how = none
    /\ out = none
    /\ ub = FALSE
    /\ pool = none

\* detail::tables<Width, Poly, RefIn, Slices> of zcrc/zcrc.hpp
BuildTables(Slices) ==
    /\ out = none
    /\ out' = [op |-> "tables", header |-> "zcrc/zcrc.hpp", Slices |-> Slices,
               digits |-> [Slice \in 0..(Slices - 1) |->
                              table_digits(kernel_width(params.Width),
                                           kernel_poly(params.Width, params.Poly),
                                           params.RefIn, Slice)],
               t |-> tables(kernel_width(params.Width),
                            kernel_poly(params.Width, params.Poly),
                            params.RefIn, Slices)]
    /\ UNCHANGED <<cfg, msg, pos, a, b, tail, log, how, ub, pool>>

\* detail::tables<Width, Poly, RefIn, Slices> of crc/crc.hpp
BuildTables_(Slices) ==
    /\ out = none
    /\ out' = [op |-> "tables", header |-> "crc/crc.hpp", Slices |-> Slices,
               digits |-> [Slice \in 0..(Slices - 1) |->
                              tables__digits(kernel_width(params.Width),
                                             kernel_poly(params.Width, params.Poly),
                                             params.RefIn, Slices)],
               t |-> tables_(kernel_width(params.Width),
                             kernel_poly(params.Width, params.Poly),
                             params.RefIn, Slices)]
    /\ UNCHANGED <<cfg, msg, pos, a, b, tail, log, how, ub, pool>>

TablesNext ==
    \E Slices \in SliceCounts \cup MatrixSlices :
        \/ BuildTables(Slices)
        \/ BuildTables_(Slices)

Tables == TablesInit /\ [][TablesNext]_vars

----------------------------------------------------------------------------
(* The arithmetic of process_zero_bytes: products in GF(2)[x]/P, the       *)
(* folding constants, and the loop over the bits of n.                     *)

\* the operands of the products: Width-bit words
Operands(Width, Poly) ==
    {{}, {0}, {4}, {Width - 5}, {Width - 1}, Poly, Ones(Width), Word(51) \cup {Width - 2}}

FieldInit ==
    /\ cfg \in Predefined
    /\ msg = <<>>
    /\ pos = 0
    /\ a \in Operands(kernel_width(Catalogue[cfg].Width),
                       kernel_poly(Catalogue[cfg].Width, Catalogue[cfg].Poly))
    /\ b \in Operands(kernel_width(Catalogue[cfg].Width),
                       kernel_poly(Catalogue[cfg].Width, Catalogue[cfg].Poly))
    /\ tail = -1
    /\ log = <<>>
    /\ how = none
    /\ out = none
    /\ ub = FALSE
    /\ pool = none

\* detail::clmul_over_field<Width, Poly, RefIn>(a, b)
Multiply ==
    /\ out = none
    /\ out' = [op |-> "clmul_over_field",
               val |-> clmul_over_field(kernel_width(params.Width),
                                        kernel_poly(params.Width, params.Poly),
                                        params.RefIn, a, b)]
    /\ UNCHANGED <<cfg, msg, pos, a, b, tail, log, how, ub, pool>>

\* detail::folding_constants<Width, Poly, RefIn>, with the r the loop starts from
BuildFoldingConstants ==
    /\ out = none
    /\ out' = [op |-> "folding_constants",
               seed |-> {IF params.RefIn THEN kernel_width(params.Width) - 5 ELSE 4},
               entries |-> folding_constants(kernel_width(params.Width),
                                             kernel_poly(params.Width, params.Poly),
                                             params.RefIn)]
    /\ UNCHANGED <<cfg, msg, pos, a, b, tail, log, how, ub, pool>>

\* the byte counts of process_zero_bytes, std::size_t words up to
\* std::numeric_limits<std::size_t>::max()
Counts ==
    {{}, {0}, Word(MaxZero), {SizeDigits - 1}, {0, SizeDigits - 1},
     Ones(SizeDigits) \ {31}, Ones(SizeDigits)}

\* zcrc::process_zero_bytes(crc {a}, n), with the work of its loop
ProcessZeroBytesTraced(n) ==
    /\ out = none
    /\ LET done == process_zero_bytes_fn_impl_traced(params.Width, params.Poly, params.RefIn, a, n)
       IN  out' = [op |-> "process_zero_bytes", n |-> n, val |-> done.state,
                   examined |-> done.examined, multiplied |-> done.multiplied]
    /\ UNCHANGED <<cfg, msg, pos, a, b, tail, log, how, ub, pool>>

FieldNext ==
    \/ Multiply
    \/ BuildFoldingConstants

Field == FieldInit /\ [][FieldNext]_vars

\* a state a of each predefined parametrization, for process_zero_bytes
FoldingInit ==
    /\ cfg \in Predefined
    /\ msg = <<>>
    /\ pos = 0
    /\ a \in Operands(kernel_width(Catalogue[cfg].Width),
                       kernel_poly(Catalogue[cfg].Width, Catalogue[cfg].Poly))
    /\ b = zero_init
    /\ tail = -1
    /\ log = <<>>
    /\ how = none
    /\ out = none
    /\ ub = FALSE
    /\ pool = none

FoldingNext == \E n \in Counts : ProcessZeroBytesTraced(n)

Folding == FoldingInit /\ [][FoldingNext]_vars

----------------------------------------------------------------------------
(* The bit primitives: reflect, lshift and rshift, each applied to a word  *)
(* a with the arguments of `how`.                                          *)

\* the digits of the unsigned types the primitives are instantiated with
Digits == {8, 16, 32, 64}

\* every word of up to 8 bits, and words of each kind for the longer ones
Samples(bits) ==
    IF bits <= 8 THEN SUBSET Ones(bits)
    ELSE {w \cap Ones(bits) :
             w \in {{}, {0}, {bits - 1}, Ones(bits), {i \in Ones(bits) : i % 2 = 0},
                    Word(51) \cup {bits - 2}, Ones(bits) \ {10}, {9, 10}}}

\* shift counts on both sides of -digits, 0 and digits
Shifts(digits) == (0 - digits - 2)..(digits + 2)

PrimitiveCalls ==
    {[op |-> "reflect", header |-> "zcrc/zcrc.hpp", digits |-> least_uint(bits), b |-> bits] :
        bits \in 1..64}
    \cup UNION {{[op |-> "lshift", header |-> "zcrc/zcrc.hpp", digits |-> digits, b |-> by] :
                    by \in Shifts(digits)} : digits \in Digits}
    \cup UNION {{[op |-> "rshift", header |-> header, digits |-> digits, b |-> by] :
                    by \in Shifts(digits), header \in {"zcrc/zcrc.hpp", "crc/crc.hpp"}} :
                 digits \in Digits}

PrimitivesInit ==
    /\ cfg = "crc32c"
    /\ msg = <<>>
    /\ pos = 0
    /\ how \in PrimitiveCalls
    /\ a \in Samples(IF how.op = "reflect" THEN how.b ELSE how.digits)
    /\ b = zero_init
    /\ tail = -1
    /\ log = <<>>
    /\ out = none
    /\ ub = FALSE
    /\ pool = none

\* detail::reflect(a, b), and detail::reflect of what it returns
Reflect ==
    /\ out = none
    /\ how.op = "reflect"
    /\ out' = [op |-> "reflect", val |-> reflect(a, how.b),
               twice |-> reflect(reflect(a, how.b), how.b)]
    /\ UNCHANGED <<cfg, msg, pos, a, b, tail, log, how, ub, pool>>

\* detail::lshift<T>(a, b)
Lshift ==
    /\ out = none
    /\ how.op = "lshift"
    /\ out' = [op |-> "lshift", val |-> lshift(how.digits, a, how.b)]
    /\ UNCHANGED <<cfg, msg, pos, a, b, tail, log, how, ub, pool>>

\* detail::rshift<T>(a, b) of either header
Rshift ==
    /\ out = none
    /\ how.op = "rshift"
    /\ out' = [op |-> "rshift",
               val |-> IF how.header = "zcrc/zcrc.hpp"
                       THEN rshift(how.digits, a, how.b)
                       ELSE crc_rshift(how.digits, a, how.b)]
    /\ UNCHANGED <<cfg, msg, pos, a, b, tail, log, how, ub, pool>>

PrimitivesNext ==
    \/ Reflect
    \/ Lshift
    \/ Rshift

Primitives == PrimitivesInit /\ [][PrimitivesNext]_vars

----------------------------------------------------------------------------
(* Two states, each constructed initialized or zero, and two buffers of    *)
(* the same length: the second state processes the second buffer, and a    *)
(* combined state processes the XOR of the buffers.                        *)

SuperposeInit ==
    /\ cfg \in Names
    /\ msg \in Buffers
    /\ pos = 0
    /\ a \in {m_crc(Catalogue[cfg]), zero_init}
    /\ b \in {m_crc(Catalogue[cfg]), zero_init}
    /\ tail = -1
    /\ log = <<>>
    /\ how = none
    /\ out = none
    /\ ub = FALSE
    /\ pool = none

\* the bytes of two spans of one length, XORed position by position
XorBytes(lhs, rhs) == [j \in 1..Len(lhs) |-> Num8(Xor(Word(lhs[j]), Word(rhs[j])))]

\* process(algo, combine(a, b), msg ^ other), process(algo, a, msg) and
\* process(algo, b, other)
Superpose(algorithm, other) ==
    /\ out = none
    /\ Len(other) = Len(msg)
    /\ out' = [op |-> "superpose", algo |-> algorithm, other |-> other,
               whole |-> process_fn(params, algorithm, combine_fn(a, b),
                                    XorBytes(msg, other), 0),
               lhs |-> process_fn(params, algorithm, a, msg, 0),
               rhs |-> process_fn(params, algorithm, b, other, 0)]
    /\ UNCHANGED <<cfg, msg, pos, a, b, tail, log, how, ub, pool>>

\* process(algo, crc {zero_init}, msg ^ msg): as many zero bytes as msg is long
ProcessZeros(algorithm) ==
    /\ out = none
    /\ out' = [op |-> "process_zeros", algo |-> algorithm,
               val |-> process_fn(params, algorithm, zero_init, XorBytes(msg, msg), 0)]
    /\ UNCHANGED <<cfg, msg, pos, a, b, tail, log, how, ub, pool>>

SuperposeNext ==
    \/ \E algorithm \in Algorithms, other \in Buffers :
            ~algorithm.parallel /\ Superpose(algorithm, other)
    \/ \E algorithm \in Algorithms : ~algorithm.parallel /\ ProcessZeros(algorithm)

Superposition == SuperposeInit /\ [][SuperposeNext]_vars

----------------------------------------------------------------------------
(* The threads of a parallel call.  std::transform_reduce applies the      *)
(* transform to every index on some thread and sums the initial value and  *)
(* the results in any grouping and any order; the benchmark starts one     *)
(* std::jthread per chunk, and each adds its result to `ret` under a mutex. *)

Threads(T) == 0..(T - 1)

\* a thread that has not run yet
ready == [pc |-> "ready", from |-> {}, lo |-> 0, hi |-> 0, n |-> 0, val |-> {}, local |-> {}]

\* the buffers of the parallel calls: the first bytes of test_data
ConcurrentBuffers == {SubSeq(test_data, 1, len) : len \in 0..MaxLen}

ConcurrentInit ==
    /\ cfg \in Names
    /\ msg \in ConcurrentBuffers
    /\ pos = 0
    /\ a = m_crc(Catalogue[cfg])
    /\ b = zero_init
    /\ tail = -1
    /\ log = <<>>
    /\ how = none
    /\ out = none
    /\ ub = FALSE
    /\ pool = none

\* thread i once it has computed its chunk: where the chunk lies, the state it
\* started from, the zero bytes it accounted for, and its result.  The
\* transform of the driver works on m_crc with the kernels, the thread of the
\* benchmark calls zcrc::process and zcrc::process_zero_bytes
computed(p, driver, N, state, bytes, chunk_length, i) ==
    LET len == Len(bytes)
        first == chunk_begin(len, chunk_length, i)
        last == chunk_end(len, chunk_length, i)
        from == IF i = 0 THEN state ELSE zero_init
    IN  [pc |-> "computed", from |-> from, lo |-> first, hi |-> last, n |-> len - last,
         val |-> IF driver = "transform_reduce"
                 THEN parallel_chunk(kernel_width(p.Width), kernel_poly(p.Width, p.Poly),
                                     p.RefIn, N, state, bytes, chunk_length, i)
                 ELSE process_zero_bytes_fn(p,
                          process_fn(p, slice_by(N), from, SubSeq(bytes, first + 1, last), 0),
                          Word(len - last)),
         local |-> {}]

\* the call begins: the divisions by hardware_threads and by chunk_length are
\* undefined behaviour when the divisor is 0, after which the call may have
\* returned any value
Start(driver, N, T, state, unspecified) ==
    /\ ~ub /\ out = none /\ pool = none
    /\ IF parallel_undefined(Len(msg), T)
       THEN /\ ub' = TRUE
            /\ out' = [op |-> driver, val |-> unspecified]
            /\ pool' = pool
       ELSE /\ unspecified = {}
            /\ ub' = ub
            /\ out' = out
            /\ pool' = [driver |-> driver, N |-> N, T |-> T, state |-> state,
                           chunk_length |-> Len(msg) \div T,
                           spawned |-> IF driver = "pool" THEN 0 ELSE T,
                           thread |-> [i \in Threads(T) |-> ready],
                           parts |-> IF driver = "pool" THEN {}
                                     ELSE {[of |-> {-1}, val |-> zero_init]},
                           mutex |-> -1, ret |-> zero_init, order |-> <<>>]
    /\ UNCHANGED <<cfg, msg, pos, a, b, tail, log, how>>

\* zcrc::process(zcrc::parallel<zcrc::slice_by<N>>, a, msg) reaches
\* std::transform_reduce while hardware_concurrency() reports T
StartTransformReduce(N, T, unspecified) == Start("transform_reduce", N, T, a, unspecified)

Running_(driver) == ~ub /\ out = none /\ pool # none /\ pool.driver = driver

\* some thread applies the transform to index i; the result is a summand
Transform(i) ==
    /\ Running_("transform_reduce")
    /\ i < pool.T
    /\ pool.thread[i].pc = "ready"
    /\ LET c == computed(params, "transform_reduce", pool.N, pool.state, msg,
                         pool.chunk_length, i)
       IN  pool' = [pool EXCEPT !.thread[i] = [c EXCEPT !.pc = "done"],
                                      !.parts = @ \cup {[of |-> {i}, val |-> c.val]},
                                      !.order = Append(@, i)]
    /\ UNCHANGED <<cfg, msg, pos, a, b, tail, log, how, out, ub>>

\* the binary operation lhs ^ rhs joins two summands; -1 marks the initial value
Reduce(p, q) ==
    /\ Running_("transform_reduce")
    /\ p \in pool.parts /\ q \in pool.parts /\ p # q
    /\ pool' = [pool EXCEPT !.parts = (@ \ {p, q})
                                       \cup {[of |-> p.of \cup q.of, val |-> Xor(p.val, q.val)]}]
    /\ UNCHANGED <<cfg, msg, pos, a, b, tail, log, how, out, ub>>

\* std::transform_reduce returns the sum of the initial value and all results
ReturnTransformReduce ==
    /\ Running_("transform_reduce")
    /\ \E p \in pool.parts :
            /\ p.of = {-1} \cup Threads(pool.T)
            /\ out' = [op |-> "transform_reduce", val |-> p.val]
    /\ UNCHANGED <<cfg, msg, pos, a, b, tail, log, how, ub, pool>>

\* compute<CRC>(zcrc::slice_by<N>, T, msg) of the benchmark begins
StartPool(N, T, unspecified) == Start("pool", N, T, m_crc(params), unspecified)

\* pool.emplace_back(...): the next thread starts
Spawn ==
    /\ Running_("pool")
    /\ pool.spawned < pool.T
    /\ pool' = [pool EXCEPT !.spawned = @ + 1]
    /\ UNCHANGED <<cfg, msg, pos, a, b, tail, log, how, out, ub>>

\* thread i computes temp
Work(i) ==
    /\ Running_("pool")
    /\ i < pool.spawned
    /\ pool.thread[i].pc = "ready"
    /\ pool' = [pool EXCEPT !.thread[i] =
                       computed(params, "pool", pool.N, pool.state, msg,
                                pool.chunk_length, i)]
    /\ UNCHANGED <<cfg, msg, pos, a, b, tail, log, how, out, ub>>

\* a lock that any thread takes at any time
mutex_free_always(owner) == TRUE

mutex_free(owner) == owner = -1

\* const std::scoped_lock lock {ret_mutex}
Lock(i) ==
    /\ Running_("pool")
    /\ i < pool.T
    /\ pool.thread[i].pc = "computed"
    /\ mutex_free(pool.mutex)
    /\ pool' = [pool EXCEPT !.mutex = i, !.thread[i].pc = "locked"]
    /\ UNCHANGED <<cfg, msg, pos, a, b, tail, log, how, out, ub>>

\* ret = zcrc::combine(ret, temp): the thread reads ret ...
ReadRet(i) ==
    /\ Running_("pool")
    /\ i < pool.T
    /\ pool.thread[i].pc = "locked"
    /\ pool' = [pool EXCEPT !.thread[i].local = pool.ret, !.thread[i].pc = "read"]
    /\ UNCHANGED <<cfg, msg, pos, a, b, tail, log, how, out, ub>>

\* ... and assigns the combined state to it
WriteRet(i) ==
    /\ Running_("pool")
    /\ i < pool.T
    /\ pool.thread[i].pc = "read"
    /\ pool' = [pool EXCEPT !.ret = combine_fn(pool.thread[i].local,
                                                     pool.thread[i].val),
                                  !.thread[i].pc = "written",
                                  !.order = Append(@, i)]
    /\ UNCHANGED <<cfg, msg, pos, a, b, tail, log, how, out, ub>>

\* the lock is released when the thread's function returns
Unlock(i) ==
    /\ Running_("pool")
    /\ i < pool.T
    /\ pool.thread[i].pc = "written"
    /\ pool' = [pool EXCEPT !.mutex = -1, !.thread[i].pc = "done"]
    /\ UNCHANGED <<cfg, msg, pos, a, b, tail, log, how, out, ub>>

\* the destructors of the std::jthreads join them at the end of the scope
joined(w) == w.spawned = w.T /\ \A i \in Threads(w.T) : w.thread[i].pc = "done"

\* return zcrc::finalize(ret)
Join ==
    /\ Running_("pool")
    /\ joined(pool)
    /\ out' = [op |-> "pool", val |-> finalize_fn(params, pool.ret)]
    /\ UNCHANGED <<cfg, msg, pos, a, b, tail, log, how, ub, pool>>

ConcurrentNext ==
    \/ \E N \in 1..MaxN, T \in 0..MaxThreads, u \in Unspecified : StartTransformReduce(N, T, u)
    \/ \E i \in Threads(MaxThreads) : Transform(i)
    \/ \E p, q \in (IF pool = none THEN {} ELSE pool.parts) : Reduce(p, q)
    \/ ReturnTransformReduce
    \/ \E N \in 1..MaxN, T \in 0..MaxThreads, u \in Unspecified : StartPool(N, T, u)
    \/ Spawn
    \/ \E i \in Threads(MaxThreads) : Work(i)
    \/ \E i \in Threads(MaxThreads) : Lock(i)
    \/ \E i \in Threads(MaxThreads) : ReadRet(i)
    \/ \E i \in Threads(MaxThreads) : WriteRet(i)
    \/ \E i \in Threads(MaxThreads) : Unlock(i)
    \/ Join

Concurrent == ConcurrentInit /\ [][ConcurrentNext]_vars

----------------------------------------------------------------------------
(* The Rocksoft reference model, one bit at a time.  The register is the   *)
(* W-bit value itself, whatever the orientation of the input.              *)

\* shift one message bit into the register
RocksoftBit(p, reg, bit) ==
    LET shifted == Conv(Shl(reg, 1), p.Width)
    IN  IF ((p.Width - 1) \in reg) # bit THEN Xor(shifted, p.Poly) ELSE shifted

\* a byte goes in most significant bit first, least significant first iff RefIn
RocksoftByte(p, reg, byte) ==
    Loop(LAMBDA r, i : RocksoftBit(p, r, (IF p.RefIn THEN i ELSE 7 - i) \in Word(byte)),
         reg, 0, 8)

Rocksoft(p, bytes) ==
    LET reg == Loop(LAMBDA r, j : RocksoftByte(p, r, bytes[j + 1]), p.Init, 0, Len(bytes))
        turned == IF p.RefOut THEN {p.Width - 1 - i : i \in reg} ELSE reg
    IN  Xor(turned, p.XOROut)

----------------------------------------------------------------------------
(* Properties.                                                             *)

\* C1: compute with a slice algorithm returns the checksum of the bit-at-a-time
\* Rocksoft reference model of the parametrization, for every buffer.
C1_ComputeIsRocksoft ==
    (out.op = "compute" /\ ~out.algo.parallel) => out.val = Rocksoft(params, msg)

\* a checksum of a longest buffer, reflected on output only, was computed
C1_Witness ==
    /\ out.op = "compute" /\ out.algo = default_algorithm
    /\ cfg = "crc12_umts" /\ Len(msg) = MaxLen
    /\ out.val = Rocksoft(params, msg)

\* C2: a process call with parallel<slice_by<N>> and T >= 1 pool returns the
\* state process returns with slice_by<N> for the same state and span, and so
\* compute with parallel<slice_by<N>> returns what compute with slice_by<N> does.
C2_ParallelIsInner ==
    /\ (how # none /\ how.parallel /\ how.hardware_threads >= 1) =>
            LET call == log[Len(log)]
            IN  /\ ~ub
                /\ a = process_fn(params, slice_by(how.N), call.from,
                                  SubSeq(msg, call.lo + 1, call.hi), 0)
    /\ (out.op = "compute" /\ out.algo.parallel /\ out.hardware_threads >= 1) =>
            /\ ~ub
            /\ out.val = compute_member_fn(params, slice_by(out.algo.N), msg, 0)

\* C3: compute with slice_by<N> returns what compute with slice_by<1> returns,
\* for every N and every buffer, also one shorter than N or of a length that N
\* does not divide.
C3_SliceIndependence ==
    (out.op = "compute" /\ ~out.algo.parallel) =>
        out.val = compute_member_fn(params, slice_by(1), msg, 0)

\* a buffer longer than N = 2 and not a multiple of it went through slice_by<2>
C3_Witness ==
    /\ out.op = "compute" /\ out.algo = slice_by(2)
    /\ Len(msg) = 3 /\ cfg = "crc5_usb"
    /\ out.val = compute_member_fn(params, slice_by(1), msg, 0)

\* n bytes of value 0x00, n given as a word
ZeroBytes(n) == [j \in 1..(CHOOSE k \in 0..MaxZero : Word(k) = n) |-> 0]

\* C4: process_zero_bytes(s, n) returns the state that process with slice_by<1>
\* returns for s and n bytes of value 0x00, for every state s the operations
\* have produced.
C4_ZeroByteExtension ==
    (log # <<>> /\ log[Len(log)].op = "process_zero_bytes") =>
        LET call == log[Len(log)]
        IN  a = process_fn(params, slice_by(1), call.from, ZeroBytes(call.n), 0)

\* a state that process returned for a narrow register was extended by the
\* most zero bytes
C4_Witness ==
    /\ Len(log) = 2 /\ log[1].op = "process" /\ log[1].hi > log[1].lo
    /\ log[2].op = "process_zero_bytes" /\ log[2].n = Word(MaxZero)
    /\ cfg = "crc3_gsm" /\ log[2].from # {} /\ a # log[2].from
    /\ a = process_fn(params, slice_by(1), log[2].from, ZeroBytes(log[2].n), 0)

\* the calls on `a` were process_zero_bytes(process(init, X), |Y|) combined
\* with b = process(zero, Y), for the split of msg into X and Y at `tail`
CombinedSplit ==
    /\ log # <<>> /\ log[Len(log)].op = "combine"
    /\ \/ Len(log) = 2
       \/ Len(log) = 3 /\ log[1].op = "process" /\ ~log[1].parallel

\* C5: for every split of the buffer into X and Y,
\* finalize(combine(process_zero_bytes(process(init, X), |Y|), process(zero, Y)))
\* is the checksum compute returns for the whole buffer.
C5_CombineLaw ==
    (out.op = "finalize" /\ CombinedSplit) =>
        out.val = compute_member_fn(params, default_algorithm, msg, 0)

\* a buffer split into one byte and two bytes, both parts changing their state
C5_Witness ==
    /\ out.op = "finalize" /\ CombinedSplit
    /\ cfg = "crc32c" /\ Len(msg) = 3 /\ tail = 1
    /\ log[3].with # {} /\ log[2].from # m_crc(params)
    /\ out.val = compute_member_fn(params, default_algorithm, msg, 0)

\* the calls on `a` were two process calls with slice algorithms, on the
\* adjacent spans X and Y of msg
TwoProcessCalls ==
    /\ Len(log) = 2
    /\ log[1].op = "process" /\ ~log[1].parallel
    /\ log[2].op = "process" /\ ~log[2].parallel

\* C6: process(process(s, X), Y) is the state process(s, X || Y), whatever
\* slice algorithm each of the three calls runs with; the state between the
\* two calls is the masked one that the first call returned.
C6_Incremental ==
    TwoProcessCalls =>
        \A N \in 1..MaxN :
            a = process_fn(params, slice_by(N), log[1].from,
                           SubSeq(msg, log[1].lo + 1, log[2].hi), 0)

\* one byte, then two bytes with slice_by<2>, on a register narrower than its
\* storage word
C6_Witness ==
    /\ TwoProcessCalls
    /\ cfg = "crc10_atm" /\ log[1].hi = 1 /\ log[2].hi = 3 /\ how.N = 2
    /\ log[2].from # log[1].from /\ a # log[2].from
    /\ a = process_fn(params, slice_by(3), log[1].from, msg, 0)

\* the ways to lay the W bits of a checksum c into ceil(W/8) bytes: the byte
\* of the highest bits first or last, the unused bits above or below the
\* checksum, the bits of the checksum in their order or reversed
Orientations(p, c) ==
    LET count == (p.Width + 7) \div 8
        first(w) == [j \in 1..count |-> ByteAt(w, 8 * (count - j))]
        last(w) == [j \in 1..count |-> ByteAt(w, 8 * (j - 1))]
        words == {c, Shl(c, 8 * count - p.Width)}
        reversed == {{(8 * count - 1) - i : i \in w} : w \in words}
    IN  {first(w) : w \in words \cup reversed} \cup {last(w) : w \in words \cup reversed}

\* C7: is_valid accepts a buffer M followed by compute(M), serialized into
\* ceil(W/8) bytes: in the orientation of the wire, or else in another one.
C7_ValidationAccepts ==
    (out.op = "validate" /\ out.flip = -1) =>
        \/ out.val
        \/ \E checksum \in Orientations(params, compute_member_fn(params, default_algorithm, msg, 0)) :
                is_valid_member_fn(params, default_algorithm, msg \o checksum, 0)

\* C8: is_valid rejects a buffer M followed by compute(M) after any one bit of
\* it has been flipped.
C8_ValidationRejects ==
    (out.op = "validate" /\ out.flip >= 0) => ~out.val

\* the W significant bits of a register of the kernel
SignificantBits(p, reg) ==
    IF p.Width < 8 /\ ~p.RefIn
    THEN {i \in reg : 8 - p.Width <= i /\ i < 8}
    ELSE Conv(reg, p.Width)

\* the register of the kernel at the end of process(slice_by<N>, crc, bytes),
\* before the return masks it
Streamed(p, N, crc, bytes) ==
    process_fn_impl_unmasked(kernel_width(p.Width), kernel_poly(p.Width, p.Poly),
                             p.RefIn, N, crc, bytes)

\* process(slice_by<N>, init, other) for the short buffers: the register when
\* the loops ended and the state returned
Others ==
    [n \in Names |-> [N \in 1..MaxN |-> [other \in Spans(2) |->
        [streamed |-> Streamed(Catalogue[n], N, m_crc(Catalogue[n]), other),
         returned |-> process_fn(Catalogue[n], slice_by(N), m_crc(Catalogue[n]), other, 0)]]]]

\* the last call on `a` was a process call with a slice algorithm
SliceCall ==
    /\ out = none /\ log # <<>>
    /\ log[Len(log)].op = "process" /\ ~log[Len(log)].parallel

\* C9: the state a process call returned compares equal to the state process
\* returns for another buffer exactly when the W significant bits of the two
\* registers agree, whatever the bits above them were while streaming.
C9_EqualityIgnoresGarbage ==
    SliceCall =>
        LET call == log[Len(log)]
            mine == Streamed(params, how.N, call.from, SubSeq(msg, call.lo + 1, call.hi))
        IN  \A other \in Spans(2), N \in 1..MaxN :
                operator_eq(a, Others[cfg][N][other].returned)
                    <=> SignificantBits(params, mine)
                            = SignificantBits(params, Others[cfg][N][other].streamed)

\* crc10_atm over 06 33 and over 00 00: equal states, though the registers
\* differed above bit W when the loops ended
C9_Witness ==
    /\ SliceCall /\ cfg = "crc10_atm" /\ msg = <<6, 51>>
    /\ Len(log) = 1 /\ log[1].hi = 2 /\ how.N = 1
    /\ operator_eq(a, Others[cfg][1][<<0, 0>>].returned)
    /\ Streamed(params, 1, log[1].from, msg) # Others[cfg][1][<<0, 0>>].streamed

\* C10: every call of an operation returns a well-defined value: none divides
\* or takes a remainder by zero, also not a process call with parallel<A> on an
\* empty span, on a span shorter than the worker count, or with a hardware
\* concurrency reported as 0.
C10_Total == ~ub


\* C11: P::compute(algo, B) is finalize(process(algo, initialized state, B))
\* and P::is_valid(algo, B) is is_valid(process(algo, initialized state, B));
\* an overload called without an algorithm runs slice_by<8> and returns what
\* the same call with slice_by<8> returns; the members ignore any state the
\* caller holds
C11_DispatchLaw ==
    /\ out.op = "compute" =>
            out.val = finalize_fn(params, process_fn(params, out.algo, m_crc(params), msg, 0))
    /\ out.op = "is_valid" =>
            out.val = is_valid_fn(params, process_fn(params, out.algo, m_crc(params), msg, 0))
    /\ (out.op \in {"process", "compute", "is_valid"} /\ out.defaulted) =>
            /\ out.algo = slice_by(8)
            /\ out.op = "process" => out.val = process_fn(params, slice_by(8), a, msg, 0)
            /\ out.op = "compute" => out.val = compute_member_fn(params, slice_by(8), msg, 0)
            /\ out.op = "is_valid" => out.val = is_valid_member_fn(params, slice_by(8), msg, 0)

C11_Witness ==
    /\ out.op = "compute" /\ out.defaulted
    /\ cfg = "crc16_modbus" /\ msg = test_data /\ a = zero_init
    /\ out.val = finalize_fn(params, process_fn(params, slice_by(8), m_crc(params), msg, 0))
    /\ out.val # finalize_fn(params, process_fn(params, slice_by(8), a, msg, 0))


\* C12: for every predefined parametrization and every slice_by<N>, N in 1..5,
\* compute of the nine bytes "123456789" is the published check value
C12_CatalogueVectors ==
    (out.op = "compute" /\ msg = test_data /\ out.algo.N \in 1..5) =>
        out.val = check_values[cfg]

C12_Witness ==
    /\ out.op = "compute" /\ msg = test_data /\ out.algo = slice_by(5) /\ ~out.defaulted
    /\ cfg = "crc64_xz"
    /\ out.val = Hex(<<9, 9, 5, 13, 12, 9, 11, 11, 13, 15, 1, 9, 3, 9, 15, 10>>)


\* C13: process reaches the same state whatever the category of the range that
\* holds the bytes: contiguous and sized, random access and sized, random
\* access without a sized sentinel, or single pass; a single-pass range is
\* folded byte by byte, as slice_by<1> folds it
C13_CategoryIndependence ==
    out.op = "process_range" =>
        /\ out.val = process_fn_on(params, out.algo, a, msg, "contiguous_sized", 0)
        /\ out.category = "input" => out.val = process_fn(params, slice_by(1), a, msg, 0)

C13_Witness ==
    /\ out.op = "process_range" /\ out.category = "random_access_unsized"
    /\ out.algo = slice_by(4) /\ msg = test_data /\ cfg = "crc24_openpgp"
    /\ a = m_crc(params)
    /\ out.val = process_fn_on(params, out.algo, a, msg, "contiguous_sized", 0)
    /\ finalize_fn(params, out.val) = check_values[cfg]


\* C14: a parametrization is rejected when W = 0, when W exceeds the widest
\* storage (64 bits), or when P, I or X has a bit at position W or above; an
\* accepted one has 1 <= W <= 64 and P, I, X below 2^W
C14_Rejection ==
    out.op = "instantiate" =>
        LET high == {i \in out.Poly \cup out.Init \cup out.XOROut : i >= out.Width}
        IN  /\ (out.Width = 0 \/ out.Width > 64 \/ high # {}) => ~out.accepted
            /\ out.accepted =>
                    /\ 1 <= out.Width /\ out.Width <= 64
                    /\ out.Poly \cup out.Init \cup out.XOROut \subseteq 0..(out.Width - 1)

C14_Witness ==
    /\ out.op = "instantiate" /\ ~out.accepted
    /\ out.Width = 5 /\ out.Poly = {0} /\ out.Init = {} /\ out.XOROut = {5}


\* a parallel call that has returned without undefined behaviour
Returned == ~ub /\ pool # none /\ out.op \in {"transform_reduce", "pool"}

\* C15: the T chunks of a span of length L are contiguous, disjoint and cover
\* [0, L): chunk 0 is [0, L mod T + L/T), every later chunk is the next L/T
\* bytes, and the last chunk ends at L
C15_Partition ==
    Returned =>
        LET T == pool.T
            L == Len(msg)
            chunk == pool.thread
        IN  /\ chunk[0].lo = 0
            /\ chunk[0].hi = (L % T) + (L \div T)
            /\ \A i \in 1..(T - 1) :
                    /\ chunk[i].lo = chunk[i - 1].hi
                    /\ chunk[i].hi = chunk[i].lo + (L \div T)
            /\ chunk[T - 1].hi = L


\* the XOR of the results of the threads 0 .. T - 1, each taken once
RECURSIVE XorOfChunks(_, _)
XorOfChunks(thread, T) ==
    IF T = 0 THEN {} ELSE Xor(XorOfChunks(thread, T - 1), thread[T - 1].val)

\* C16: in whatever order the threads run and finish, a parallel call whose
\* divisions are defined (so that its threads have chunks to work on) returns
\* only after every thread has finished, every chunk has contributed exactly
\* once, and the value is the XOR of the T shifted chunk results (finalized,
\* in the benchmark, whose combine under the mutex loses no contribution)
C16_ReductionUnderInterleaving ==
    Returned =>
        /\ \A i \in Threads(pool.T) : pool.thread[i].pc = "done"
        /\ Len(pool.order) = pool.T
        /\ {pool.order[k] : k \in 1..Len(pool.order)} = Threads(pool.T)
        /\ out.val = IF pool.driver = "pool"
                     THEN finalize_fn(params, XorOfChunks(pool.thread, pool.T))
                     ELSE XorOfChunks(pool.thread, pool.T)

C16_Witness ==
    /\ Returned /\ out.op = "pool" /\ pool.T = 3 /\ pool.order = <<2, 0, 1>>
    /\ cfg = "crc32c" /\ Len(msg) = 3
    /\ \A i \in Threads(3) : pool.thread[i].val # {}
    /\ out.val = finalize_fn(params, XorOfChunks(pool.thread, 3))
    /\ out.val # finalize_fn(params, XorOfChunks(pool.thread, 2))

\* C17: chunk 0 starts from the caller's state and every later chunk from the
\* zero state; the result of each chunk is extended by process_zero_bytes with
\* the number of bytes of the input that follow the chunk, which is 0 for the
\* last chunk
C17_PerChunkWork ==
    Returned =>
        LET L == Len(msg)
            chunk == pool.thread
        IN  /\ \A i \in Threads(pool.T) :
                    /\ chunk[i].from = IF i = 0 THEN pool.state ELSE zero_init
                    /\ chunk[i].n = L - chunk[i].hi
                    /\ chunk[i].val =
                            process_zero_bytes_fn(params,
                                process_fn(params, slice_by(pool.N), chunk[i].from,
                                           SubSeq(msg, chunk[i].lo + 1, chunk[i].hi), 0),
                                Word(chunk[i].n))
            /\ chunk[pool.T - 1].n = 0


\* the W-bit value with its bits in the opposite order
Reversed(p, reg) == {p.Width - 1 - i : i \in reg}

\* C18: finalize returns the register, shifted right by 8 - W when the input
\* is not reflected and W < 8, masked to W bits, reflected exactly when RefIn
\* and RefOut differ, and XORed with XOROut; the checksum is below 2^W
C18_Finalization ==
    out.op = "finalize" =>
        LET shifted == IF ~params.RefIn /\ params.Width < 8
                       THEN Shr(a, 8 - params.Width) ELSE a
            masked == shifted \cap Ones(params.Width)
            turned == IF params.RefIn # params.RefOut THEN Reversed(params, masked)
                      ELSE masked
        IN  /\ out.val = Xor(turned, params.XOROut)
            /\ out.val \subseteq Ones(params.Width)

C18_Witness ==
    /\ out.op = "finalize" /\ cfg = "crc3_gsm" /\ Len(msg) = MaxLen
    /\ Len(log) = 2 /\ log[2].op = "process" /\ log[2].hi = MaxLen
    /\ a # {} /\ Shr(a, 5) # {}
    /\ out.val = Xor(Shr(a, 5), params.XOROut)
    /\ out.val # a


\* the bits a register of the parametrization may have set
RegisterBits(p) ==
    Ones(IF p.RefIn THEN p.Width ELSE IF p.Width < 8 THEN 8 ELSE p.Width)

\* C19: after any sequence of process, process_zero_bytes and combine calls
\* whose behaviour is defined, from the initialized or the zero state, a
\* register has no bit at or above max(W, 8) when the input is not reflected,
\* and none at or above W when it is
C19_RegisterRange ==
    ~ub => (a \subseteq RegisterBits(params) /\ b \subseteq RegisterBits(params))

C19_Witness ==
    /\ ~ub /\ cfg = "crc10_atm" /\ Len(log) = 3 /\ log[3].op = "combine"
    /\ log[2].op = "process_zero_bytes" /\ log[2].n = Word(2)
    /\ 9 \in a /\ b # {} /\ a # b
    /\ a \subseteq RegisterBits(params) /\ b \subseteq RegisterBits(params)


\* C20: for spans M1 and M2 of one length and every slice algorithm,
\* process(combine(a, b), M1 xor M2) = combine(process(a, M1), process(b, M2)),
\* and process of all-zero bytes from the zero state is the zero state
C20_Linearity ==
    /\ out.op = "superpose" => out.whole = combine_fn(out.lhs, out.rhs)
    /\ out.op = "process_zeros" => out.val = zero_init

C20_Witness ==
    /\ out.op = "superpose" /\ out.algo = slice_by(2) /\ cfg = "crc32c"
    /\ a = m_crc(params) /\ b = zero_init
    /\ msg = <<6, 51, 0>> /\ out.other = <<51, 51, 6>>
    /\ out.whole = Xor(out.lhs, out.rhs)
    /\ out.rhs # {} /\ out.lhs # out.whole


----------------------------------------------------------------------------
(* Polynomials over GF(2) modulo x^W + P, a polynomial being the set of    *)
(* the exponents of its terms: the reference the arithmetic of the code is *)
(* compared with.                                                          *)

\* r * x mod (x^W + P)
TimesX(W, P, r) ==
    LET shifted == {i + 1 : i \in r} \ {W}
    IN  IF (W - 1) \in r THEN Xor(shifted, P) ELSE shifted

\* r * x^k mod (x^W + P)
TimesXPow(W, P, r, k) == Loop(LAMBDA q, i : TimesX(W, P, q), r, 0, k)

\* A * B mod (x^W + P): the sum of B * x^i over the terms x^i of A
PolyMul(W, P, A, B) ==
    Loop(LAMBDA st, i : <<IF i \in A THEN Xor(st[1], st[2]) ELSE st[1], TimesX(W, P, st[2])>>,
         <<{}, B>>, 0, W)[1]

PolyMulSlow(W, P, A, B) ==
    Loop(LAMBDA acc, i : IF i \in A THEN Xor(acc, TimesXPow(W, P, B, i)) ELSE acc,
         {}, 0, W)

\* XOROut * x^W mod P, in the orientation of the register
ReferenceResidue(p) ==
    LET r == TimesXPow(p.Width, p.Poly, p.XOROut, p.Width)
    IN  IF p.RefIn THEN Reversed(p, r)
        ELSE IF p.Width < 8 THEN Shl(r, 8 - p.Width)
        ELSE r

\* C21: is_valid of a state is true exactly when its register, as it is and
\* not finalized, equals XOROut * x^W mod P (W zero bits streamed through the
\* shift-and-reduce update from XOROut, masked to W bits), reflected across W
\* bits when RefIn, shifted left by 8 - W when not RefIn and W < 8
C21_ValidationResidue ==
    out.op = "is_valid" =>
        (out.val <=> process_fn(params, out.algo, m_crc(params), msg, 0)
                        = ReferenceResidue(params))

C21_Witness ==
    /\ out.op = "is_valid" /\ out.val /\ cfg = "crc16_arc" /\ msg = <<0, 0, 0>>
    /\ out.algo = slice_by(2)
    /\ process_fn(params, out.algo, m_crc(params), msg, 0) = ReferenceResidue(params)


\* the bytes the calls of a log have streamed, those of process_zero_bytes
\* being zero bytes
RECURSIVE LogBytes(_)
LogBytes(calls) ==
    IF calls = <<>> THEN <<>>
    ELSE LET call == calls[Len(calls)]
         IN  LogBytes(SubSeq(calls, 1, Len(calls) - 1))
                \o (IF call.op = "process" THEN SubSeq(msg, call.lo + 1, call.hi)
                    ELSE ZeroBytes(call.n))

\* every call of the log is a process with a slice algorithm or a
\* process_zero_bytes
SlicedLog ==
    \A k \in 1..Len(log) :
        \/ log[k].op = "process" /\ ~log[k].parallel
        \/ log[k].op = "process_zero_bytes"

\* C22: for W < 8 the kernel run as width 8 with P << (8 - W), on a register
\* shifted left by 8 - W (input not reflected) or held in the low W bits
\* (reflected), and the adjustment of finalize give the checksum of the W-bit
\* reference computation, for process and for process_zero_bytes alike
C22_NarrowWidths ==
    (params.Width < 8 /\ out.op = "finalize" /\ SlicedLog) =>
        out.val = Rocksoft(params, LogBytes(log))

C22_Witness ==
    /\ cfg = "crc3_gsm" /\ out.op = "finalize" /\ Len(log) = 2
    /\ log[1].op = "process" /\ ~log[1].parallel /\ log[1].hi = MaxLen
    /\ log[2].op = "process_zero_bytes" /\ log[2].n = Word(MaxZero)
    /\ log[2].from # {} /\ a # log[2].from
    /\ out.val = Rocksoft(params, msg \o <<0, 0, 0>>)


\* the blocks of sizes 2^k for the exponents k of `ks` taken in the order of
\* the sequence `order`, laid out from position `at` on
RECURSIVE BlocksFrom(_, _, _)
BlocksFrom(order, ks, at) ==
    IF order = <<>> THEN <<>>
    ELSE IF Head(order) \in ks
    THEN <<(<<at, Pow2(Head(order))>>)>> \o BlocksFrom(Tail(order), ks, at + Pow2(Head(order)))
    ELSE BlocksFrom(Tail(order), ks, at)

\* the exponents 0 .. highest upwards, and downwards
Ascending(highest) == [j \in 1..(highest + 1) |-> j - 1]
Descending(highest) == [j \in 1..(highest + 1) |-> highest + 1 - j]

\* the blocks of a tail consume exactly tail_len bytes, each byte once, in
\* input order, and the call returns what process returns
TailConsumed ==
    /\ out.it = Len(msg)
    /\ \A j \in 1..Len(out.blocks) :
            out.blocks[j][1] = IF j = 1 THEN out.end_of_main_loop
                               ELSE out.blocks[j - 1][1] + out.blocks[j - 1][2]
    /\ out.val = process_fn(params, slice_by(out.N), a, msg, 0)

\* C23 as the code has it: the tail_len = L mod N bytes left by the main loop
\* are folded as one block of size 2^k for each set bit k of tail_len, in
\* ascending order of k from bit 0 up to the highest bit of N - 1; the blocks
\* consume exactly tail_len bytes, each byte once and in input order, for
\* any N >= 1
C23_TailBlocks ==
    out.op = "tail" =>
        /\ out.blocks = BlocksFrom(Ascending(bit_width(Word(out.N - 1)) - 1),
                                   Word(out.tail_len), out.end_of_main_loop)
        /\ TailConsumed

\* C23 as stated: the blocks are folded in descending order of k, starting
\* from the highest bit of N - 1
C23_TailBlocksDescending ==
    out.op = "tail" =>
        /\ out.blocks = BlocksFrom(Descending(bit_width(Word(out.N - 1)) - 1),
                                   Word(out.tail_len), out.end_of_main_loop)
        /\ TailConsumed

C23_Witness ==
    /\ out.op = "tail" /\ out.N = 8 /\ Len(msg) = 7 /\ cfg = "crc32c"
    /\ out.blocks = <<(<<0, 1>>), (<<1, 2>>), (<<3, 4>>)>>
    /\ out.val = process_fn(params, slice_by(1), a, msg, 0)


\* x^e mod (x^Width + Poly) for e = 0 .. Width + 8 * DefaultSlices + 7, by
\* repeated multiplication by x: entry e + 1 is x^e
XPowers ==
    [k \in Kernels |->
        Loop(LAMBDA powers, e : Append(powers, TimesX(k[1], k[2], powers[e])),
             <<{0}>>, 1, k[1] + 8 * DefaultSlices + 8)]

\* (b * x^e) mod P for the byte b whose bit i is the coefficient of x^i, or
\* of x^(7 - i) when the input is reflected; the product is reflected across
\* Width when the input is
RECURSIVE ByteTimesXPow(_, _, _)
ByteTimesXPow(k, index, e) ==
    IF index = {} THEN {}
    ELSE LET i == MaxBit(index)
             term == XPowers[k][e + (IF k[3] THEN 7 - i ELSE i) + 1]
         IN  Xor(IF k[3] THEN {k[1] - 1 - j : j \in term} ELSE term,
                 ByteTimesXPow(k, index \ {i}, e))

TableKernel ==
    <<kernel_width(params.Width), kernel_poly(params.Width, params.Poly), params.RefIn>>

\* C24 as the code has it: the W low bits of entry t[s][b] of the slice
\* tables are (b * x^(8 * s + W)) mod P in zcrc/zcrc.hpp, and
\* (b * x^(8 * (N - 1 - s) + W)) mod P in crc/crc.hpp, reflected iff rin, for
\* every slice s in 0..N-1 and every byte b in 0..255
C24_TableContents ==
    out.op = "tables" =>
        \A s \in 0..(out.Slices - 1) : \A index \in SUBSET (0..7) :
            out.t[s][index] \cap Ones(TableKernel[1])
                = ByteTimesXPow(TableKernel, index,
                                TableKernel[1]
                                    + 8 * (IF out.header = "zcrc/zcrc.hpp" THEN s
                                           ELSE out.Slices - 1 - s))

\* C24 as stated: entry t[s][b] is (b * x^(8 * (N - 1 - s) + W - 8)) mod P,
\* reflected iff rin
C24_TableContentsAsStated ==
    out.op = "tables" =>
        \A s \in 0..(out.Slices - 1) : \A index \in SUBSET (0..7) :
            out.t[s][index]
                = ByteTimesXPow(TableKernel, index,
                                8 * (out.Slices - 1 - s) + TableKernel[1] - 8)

C24_Witness ==
    /\ out.op = "tables" /\ out.header = "zcrc/zcrc.hpp" /\ cfg = "crc32c"
    /\ out.Slices = DefaultSlices
    /\ out.t[0][{7}] = Hex(<<8, 2, 15, 6, 3, 11, 7, 8>>)
    /\ out.t[7][{0}] = ByteTimesXPow(TableKernel, {0}, 32 + 56)
    /\ out.t[7][{0}] # out.t[0][{0}]


\* the entries of the tables built, and those with bits at or above W
TableEntries == {<<s, index>> : s \in 0..(out.Slices - 1), index \in SUBSET (0..7)}
WideEntries == {e \in TableEntries : out.t[e[1]][e[2]] \ Ones(TableKernel[1]) # {}}

\* C25 as the code has it: every one of the 256 entries of every slice table
\* fits the integer type of its table, and is a W-bit value (< 2^W) when the
\* parametrization is reflected or that type has at most W digits; entries
\* of a non-reflected table whose type is wider than W may carry bits at or
\* above W
C25_TableEntryWidth ==
    out.op = "tables" =>
        \A e \in TableEntries :
            /\ out.t[e[1]][e[2]] \subseteq Ones(out.digits[e[1]])
            /\ (params.RefIn \/ out.digits[e[1]] <= TableKernel[1])
                   => out.t[e[1]][e[2]] \subseteq Ones(TableKernel[1])

\* C25 as stated: every entry of every slice table is below 2^W
C25_TableEntryWidthAsStated ==
    out.op = "tables" => WideEntries = {}

C25_Witness ==
    /\ out.op = "tables" /\ out.header = "zcrc/zcrc.hpp" /\ cfg = "crc10_atm"
    /\ out.Slices = 2
    /\ out.digits[0] = 16 /\ out.digits[1] = 16
    /\ out.t[0][{0}] = Word(1024 + 563)
    /\ <<1, {7}>> \in WideEntries


\* a Width-bit word read with bit i as the coefficient of x^i, whatever the
\* orientation it is stored in; the same operator stores it back
Coefficients(k, w) == IF k[3] THEN {k[1] - 1 - i : i \in w} ELSE w

\* C26: for W >= 8, clmul_over_field(A, B) is A * B mod (x^W + P), in the
\* non-reflected representation and, with operands and result bit-reflected
\* across W, in the reflected one; the result is below 2^W
C26_FieldMultiplication ==
    out.op = "clmul_over_field" =>
        /\ out.val = Coefficients(TableKernel,
                          PolyMul(TableKernel[1], TableKernel[2],
                                  Coefficients(TableKernel, a),
                                  Coefficients(TableKernel, b)))
        /\ out.val \subseteq Ones(TableKernel[1])

C26_Witness ==
    /\ out.op = "clmul_over_field" /\ cfg = "crc32c"
    /\ a = Ones(32) /\ b = Word(51) \cup {30}
    /\ out.val = Coefficients(TableKernel,
                      PolyMulSlow(32, TableKernel[2], Coefficients(TableKernel, a),
                                  Coefficients(TableKernel, b)))
    /\ out.val \notin {{}, a, b}


\* x^(8 * 2^k) mod (x^Width + Poly) for k = 0 .. SizeDigits - 1, entry k + 1
\* being the square of entry k
XPowersOfTwo ==
    [k \in Kernels |->
        Loop(LAMBDA powers, j : Append(powers, PolyMul(k[1], k[2], powers[j], powers[j])),
             <<XPowers[k][8 + 1]>>, 1, SizeDigits)]

\* the exponents small enough to multiply by x one step at a time
DirectPowers == 0..3

\* C27: folding_constants[0] is clmul_over_field(seed, seed) with seed = 1 << 4
\* (non-reflected) or 1 << (W - 5) (reflected), every later entry is the
\* square of the one before it, and entry k is x^(8 * 2^k) mod P in the
\* orientation of the parametrization, for k = 0 .. 63
C27_FoldingPowers ==
    out.op = "folding_constants" =>
        LET W == TableKernel[1]
            P == TableKernel[2]
            square(r) == clmul_over_field(W, P, params.RefIn, r, r)
        IN  /\ Len(out.entries) = SizeDigits
            /\ out.seed = IF params.RefIn THEN Shl({0}, W - 5) ELSE Shl({0}, 4)
            /\ out.entries[1] = square(out.seed)
            /\ \A k \in 1..(SizeDigits - 1) : out.entries[k + 1] = square(out.entries[k])
            /\ \A k \in 0..(SizeDigits - 1) :
                   Coefficients(TableKernel, out.entries[k + 1]) = XPowersOfTwo[TableKernel][k + 1]
            /\ \A k \in DirectPowers :
                   Coefficients(TableKernel, out.entries[k + 1])
                       = TimesXPow(W, P, {0}, 8 * Pow2(k))

C27_Witness ==
    /\ out.op = "folding_constants" /\ cfg = "crc16_arc"
    /\ out.entries[1] = {7}
    /\ out.entries[2] = Coefficients(TableKernel, Word(32773))
    /\ out.entries[12] = Coefficients(TableKernel, TimesXPow(16, Word(32773), {0}, 8 * Pow2(11)))
    /\ Coefficients(TableKernel, out.entries[SizeDigits]) = XPowersOfTwo[TableKernel][SizeDigits]


\* for each set bit k of n, in ascending order, k and folding_constants[k]
ConstantsOfSetBits(n) ==
    LET constants == folding_constants(TableKernel[1], TableKernel[2], params.RefIn)
    IN  SelectSeq([i \in 1..SizeDigits |-> <<i - 1, constants[i]>>],
                  LAMBDA e : e[1] \in n)

\* C30: for every n in [0, 2^64 - 1], process_zero_bytes examines the bits
\* 0 .. 63 of n once each and returns; it calls clmul_over_field exactly once
\* per set bit of n, so at most 64 times, and the call for bit k multiplies
\* by folding_constants[k]
C30_BoundedWork ==
    out.op = "process_zero_bytes" =>
        /\ out.examined = [i \in 1..SizeDigits |-> i - 1]
        /\ Len(out.multiplied) = Cardinality(out.n)
        /\ Len(out.multiplied) <= 64
        /\ out.multiplied = ConstantsOfSetBits(out.n)
        /\ out.val = process_zero_bytes_fn(params, a, out.n)

C30_Witness ==
    /\ out.op = "process_zero_bytes" /\ out.n = Ones(64) /\ cfg = "crc64_xz"
    /\ a = Ones(64)
    /\ Len(out.multiplied) = 64 /\ Len(out.examined) = 64
    /\ out.multiplied[64][1] = 63
    /\ out.val # a


\* the number a word stands for (below 2^31)
RECURSIVE Num(_)
Num(w) == IF w = {} THEN 0 ELSE Pow2(MaxBit(w)) + Num(w \ {MaxBit(w)})

\* C28: for every bit count b in 1..64 and every n in [0, 2^b), reflect(n, b)
\* is the bit reversal of n across b bits, on the multiply-and-mask path
\* (b <= 10) and on the recursive 10-bit split (b > 10), and
\* reflect(reflect(n, b), b) = n
C28_Reflection ==
    out.op = "reflect" =>
        /\ \A i \in 0..(how.b - 1) : (i \in out.val) <=> ((how.b - 1 - i) \in a)
        /\ out.val \subseteq Ones(how.b)
        /\ out.twice = a

C28_Witness ==
    /\ out.op = "reflect" /\ how.b = 64 /\ a = Word(51) \cup {62}
    /\ out.val = {63 - 0, 63 - 1, 63 - 4, 63 - 5, 1}
    /\ out.twice = a

\* bit i of n * 2^by (by >= 0) or of floor(n / 2^(-by)) (by < 0), kept below 2^digits
ShiftedBits(digits, n, by) == {i \in 0..(digits - 1) : (i - by) \in n}

\* the same word computed on numbers, for the types of at most 16 digits
ShiftedNumber(digits, n, by) ==
    IF by >= 0 THEN Word((Num(n) * Pow2(by)) % Pow2(digits))
    ELSE Word(Num(n) \div Pow2(0 - by))

\* C29: for an unsigned type of D digits, lshift(n, b) is (n * 2^b) mod 2^D
\* for 0 <= b < D, floor(n / 2^(-b)) for -D < b < 0 and 0 whenever |b| >= D;
\* rshift(n, b) is lshift(n, -b) for every b
C29_GeneralizedShift ==
    out.op \in {"lshift", "rshift"} =>
        LET D == how.digits
            by == IF out.op = "lshift" THEN how.b ELSE 0 - how.b
        IN  /\ (by > 0 - D /\ by < D) => out.val = ShiftedBits(D, a, by)
            /\ (by > 0 - D /\ by < D /\ D <= 16) => out.val = ShiftedNumber(D, a, by)
            /\ (by <= 0 - D \/ by >= D) => out.val = {}
            /\ out.op = "rshift" => out.val = lshift(D, a, 0 - how.b)

C29_Witness ==
    /\ out.op = "rshift" /\ how.header = "crc/crc.hpp" /\ how.digits = 16 /\ how.b = -3
    /\ a = Ones(16)
    /\ out.val = Word(65528)
    /\ out.val = lshift(16, a, 3)

====
